---- MODULE Spec2Model ----
(***************************************************************************)
(* Model of the query pipeline of rag-eval-engine: the semantic query      *)
(* cache (src/caching/query_cache.py), the relational store                *)
(* (src/db/models.py) and run_query_pipeline                               *)
(* (src/evaluation/eval_pipeline.py).                                      *)
(*                                                                         *)
(* Units: similarities and scores are in hundredths (0.95 is 95); times    *)
(* are whole seconds.  sha256 and Python's hash are modelled as injective, *)
(* so a point id is the pair <<collection, normalised query>>.             *)
(***************************************************************************)
EXTENDS Integers, Sequences, FiniteSets, TLC

\* ------------------------------------------------------------------ bounds
MaxNow == 3601
MaxStores == 2
MaxUuid == 2
MaxVector == 3
MaxSparse == 2
MaxTopK == 3
MaxRepeat == 4
MaxChunks == 3
MaxBudget == 8
MaxStreamChunks == 2
MaxQuestions == 2
MaxScoreText == 3
MaxIndices == 3
MaxDocs == 3
MaxLines == 2
MaxFiles == 2

\* ------------------------------------------------- configuration (config.py)
cache_threshold == 95
cache_ttl_seconds == 3600

\* ------------------------------------------------------------ input domains
Procs == {1, 2}
Collections == {"docs", "other"}
Queries == {"q1", "Q1 ", "q2"}
TickSteps == {cache_ttl_seconds, cache_ttl_seconds + 1}

None == [kind |-> "None"]
NoPoint == [kind |-> "NoPoint"]

\* query.strip().lower()
Normalize(q) == IF q = "Q1 " THEN "q1" ELSE q

\* cosine similarity of the (normalised) embeddings of two queries
Cosine(a, b) ==
    IF a = b THEN 100
    ELSE IF {a, b} = {"q1", "Q1 "} THEN 97
    ELSE IF {a, b} = {"q1", "q2"} THEN 40
    ELSE 38

\* sha256(f"{collection}:{query.strip().lower()}")
_query_hash(query, collection) == <<collection, Normalize(query)>>

\* abs(hash(_query_hash(query, collection))) % 2**63
PointId(query, collection) == _query_hash(query, collection)

PointIds == {PointId(q, c) : q \in Queries, c \in Collections}

\* ---------------------------------------------------------- JSON at the edge
Tok(k, v) == [k |-> k, v |-> v]

\* json.dumps of a list of source entries (each entry stands for its index)
JsonDumpsList(s) ==
    <<Tok("[", 0)>> \o [i \in 1..Len(s) |-> Tok("n", s[i])] \o <<Tok("]", 0)>>

\* json.dumps of eval_scores: None or the three-score dict
JsonDumpsScores(e) ==
    IF e = None THEN <<Tok("null", 0)>>
    ELSE <<Tok("{", 0), Tok("n", e.faithfulness), Tok("n", e.relevance),
           Tok("n", e.hallucination_rate), Tok("}", 0)>>

\* the outcome of json.loads: a value, or JSONDecodeError
Parsed(v) == [ok |-> TRUE, v |-> v]
JsonError == [ok |-> FALSE, v |-> None]

\* json.loads of a list text
JsonLoadsList(t) ==
    IF Len(t) >= 2 /\ t[1].k = "[" /\ t[Len(t)].k = "]"
       /\ \A i \in 2..(Len(t) - 1) : t[i].k = "n"
    THEN Parsed([i \in 1..(Len(t) - 2) |-> t[i + 1].v])
    ELSE JsonError

\* json.loads of an eval_scores text
JsonLoadsScores(t) ==
    IF Len(t) = 1 /\ t[1].k = "null" THEN Parsed(None)
    ELSE IF Len(t) = 5 /\ t[1].k = "{" /\ t[5].k = "}"
    THEN Parsed([faithfulness |-> t[2].v, relevance |-> t[3].v,
                 hallucination_rate |-> t[4].v])
    ELSE JsonError

\* ------------------------------------------------------------------- state
VARIABLES
    now,            \* time.time()
    cache_enabled,  \* settings.cache_enabled
    cacheExists,    \* the vector collection _query_cache exists
    cache,          \* points of _query_cache: point id -> payload
    stores,         \* number of direct cache_store calls made
    query_log,      \* rows of table query_log
    eval_results,   \* rows of table eval_results
    cache_stats,    \* rows of table cache_stats, in insertion order
    uuid,           \* number of uuid4 values drawn so far
    task,           \* the run_query_pipeline coroutines, one per slot
    call,           \* the library call under way: its arguments and its outcome
    batch,          \* the run_batch_eval coroutine
    eval_runs,      \* rows of table eval_runs
    mcp,            \* the MCP server: its read loop and what it has written
    bm25_cache,     \* _bm25_cache: collection -> in-process BM25Index
    bm25_files,     \* data/bm25_indices/{collection}.json
    vectors,        \* the vector store's document collections
    documents,      \* rows of table documents
    jobs,           \* rows of table ingestion_jobs
    uploads,        \* the files staged under upload_dir
    worker,         \* the ingestion, deletion and search coroutines
    running         \* the coroutine that holds the event loop

vars == <<now, cache_enabled, cacheExists, cache, stores, query_log,
          eval_results, cache_stats, uuid, task, call, batch, eval_runs, mcp,
          bm25_cache, bm25_files, vectors, documents, jobs, uploads, worker,
          running>>

\* the state of ingestion and of the stores it fills
ingestion == <<bm25_cache, bm25_files, vectors, documents, jobs, uploads,
               worker, running>>

\* the state of the other components
others == <<mcp, ingestion>>

\* the state outside the query pipeline
aux == <<call, batch, eval_runs, others>>

\* ------------------------------------------------ relational store (models.py)
\* tables created by init_db from SCHEMA
SchemaTables == {"documents", "ingestion_jobs", "query_log", "eval_results",
                 "test_sets", "eval_runs"}

\* a connection opened without the foreign_keys pragma
ForeignKeysOff == FALSE

\* get_db: PRAGMA foreign_keys=ON on every connection
ForeignKeysOn == TRUE

\* parameters of insert_query_log
InsertQueryLogParams == {"query_id", "collection", "query", "answer", "sources",
                         "model", "tokens_used", "latency_ms",
                         "latency_retrieval_ms", "latency_generation_ms"}

\* keyword arguments run_query_pipeline passes to insert_query_log
PipelineQueryLogKwargs == {"query_id", "collection", "query", "answer",
                           "sources", "model", "tokens_used", "latency_ms",
                           "latency_retrieval_ms", "latency_generation_ms",
                           "cost_usd", "alpha", "top_k"}

\* a Python call binds only when every keyword names a parameter
CallBinds(kwargs, params) == kwargs \subseteq params

\* INSERT INTO query_log: the primary key must be new
CanInsertQueryLog(rows, id) == \A r \in rows : r.id # id

\* INSERT INTO eval_results: new primary key, and query_id REFERENCES query_log(id)
CanInsertEvalResult(evals, logs, id, query_id) ==
    /\ \A r \in evals : r.id # id
    /\ ForeignKeysOn => \E q \in logs : q.id = query_id

\* _record_cache_stat: INSERT INTO cache_stats; any failure is logged and dropped
_record_cache_stat(stats, query, collection, hit, saved_latency_ms, dbOk) ==
    IF "cache_stats" \in SchemaTables /\ dbOk
    THEN Append(stats, [query_hash |-> _query_hash(query, collection),
                        hit_or_miss |-> IF hit THEN "hit" ELSE "miss",
                        saved_latency_ms |-> saved_latency_ms])
    ELSE stats

\* --------------------------------------------- semantic cache (query_cache.py)
\* the result a caller hands to cache_store for a query
StoreResult(query) ==
    IF query = "q1"
    THEN [answer |-> "a1", sources |-> <<1, 2>>,
          eval_scores |-> [faithfulness |-> 80, relevance |-> 60,
                           hallucination_rate |-> 0],
          model |-> "m1", tokens_used |-> 10, latency_ms |-> 120]
    ELSE [answer |-> "a2", sources |-> <<>>, eval_scores |-> None,
          model |-> "m2", tokens_used |-> 20, latency_ms |-> 80]

\* the payload cache_store writes for a CachedResult
StorePayload(query, collection, result, created_at) ==
    [query |-> query,
     collection |-> collection,
     answer |-> result.answer,
     sources |-> JsonDumpsList(result.sources),
     eval_scores |-> JsonDumpsScores(result.eval_scores),
     model |-> result.model,
     created_at |-> created_at,
     tokens_used |-> result.tokens_used,
     latency_ms |-> result.latency_ms]

\* cache_store: the points after the call.  ok says that embedding, the
\* collection check and the upsert all went through; anything else is
\* logged and dropped.
cache_store(points, enabled, ok, query, collection, result, created_at) ==
    IF enabled /\ ok
    THEN [points EXCEPT ![PointId(query, collection)] =
              StorePayload(query, collection, result, created_at)]
    ELSE points

Filled(points) == {id \in PointIds : points[id] # NoPoint}

\* query_points(limit=1): the ids of the best-scoring points (any one of them
\* may be the one returned)
Top1(points, query) ==
    {id \in Filled(points) :
        \A o \in Filled(points) :
            Cosine(query, points[id].query) >= Cosine(query, points[o].query)}

\* point.score < settings.cache_threshold
BelowThreshold(score) == score < cache_threshold

\* the collection check left out
OtherCollectionIgnored(payload, collection) == FALSE

\* payload.get("collection") != collection
OtherCollection(payload, collection) == payload.collection # collection

\* the age computed with its operands exchanged
ExpiredSwapped(created_at, t) == created_at - t > cache_ttl_seconds

\* time.time() - created_at > settings.cache_ttl_seconds
Expired(created_at, t) == t - created_at > cache_ttl_seconds

\* the checks cache_lookup applies to the top-1 point
Accepts(point, query, collection, t) ==
    /\ point # NoPoint
    /\ ~BelowThreshold(Cosine(query, point.query))
    /\ ~OtherCollection(point, collection)
    /\ ~Expired(point.created_at, t)

\* a payload without eval scores treated as undecodable
CachedFromPayloadScored(payload) ==
    LET s == JsonLoadsList(payload.sources)
        e == JsonLoadsScores(payload.eval_scores)
    IN IF s.ok /\ e.ok /\ e.v # None
       THEN [answer |-> payload.answer,
             sources |-> s.v,
             eval_scores |-> e.v,
             model |-> payload.model,
             created_at |-> payload.created_at,
             tokens_used |-> payload.tokens_used,
             latency_ms |-> payload.latency_ms]
       ELSE None

\* the CachedResult built from an accepted payload; None when decoding raises
CachedFromPayload(payload) ==
    LET s == JsonLoadsList(payload.sources)
        e == JsonLoadsScores(payload.eval_scores)
    IN IF s.ok /\ e.ok
       THEN [answer |-> payload.answer,
             sources |-> s.v,
             eval_scores |-> e.v,
             model |-> payload.model,
             created_at |-> payload.created_at,
             tokens_used |-> payload.tokens_used,
             latency_ms |-> payload.latency_ms]
       ELSE None

\* cache_lookup's return value once the store has answered with its top-1
\* point (NoPoint: no points) and the clock read t
cache_lookup(point, query, collection, t) ==
    IF Accepts(point, query, collection, t)
    THEN CachedFromPayload(point)
    ELSE None

\* the cache_stats table after that cache_lookup
LookupStats(stats, dbOk, point, query, collection, t) ==
    IF Accepts(point, query, collection, t)
    THEN _record_cache_stat(stats, query, collection, TRUE, point.latency_ms, dbOk)
    ELSE _record_cache_stat(stats, query, collection, FALSE, 0, dbOk)

\* ------------------------------------- run_query_pipeline (eval_pipeline.py)
\* what the LLM provider may answer
LLMResponses == { [content |-> "a1", tokens_used |-> 10],
                  [content |-> "a2", tokens_used |-> 20] }

\* what hybrid_search may return (each result stands for its rank)
RetrievalResults == { <<>>, <<1>> }

\* what evaluate_query may return
EvalOutcomes == { [faithfulness |-> 80, relevance |-> 60, hallucination_rate |-> 0,
                   context_precision |-> 50] }

default_model == "qwen2.5-coder:14b"

\* generation started before the prompt is built
NextPcSwapped(pc) ==
    CASE pc = "lookup" -> "retrieve"
      [] pc = "retrieve" -> "generate"
      [] pc = "generate" -> "prompt"
      [] pc = "prompt" -> "evaluate"
      [] pc = "evaluate" -> "persist"
      [] OTHER -> "done"

\* the statement that follows a stage that returned normally
NextPc(pc) ==
    CASE pc = "lookup" -> "retrieve"
      [] pc = "retrieve" -> "prompt"
      [] pc = "prompt" -> "generate"
      [] pc = "generate" -> "evaluate"
      [] pc = "evaluate" -> "persist"
      [] OTHER -> "done"

\* a stage whose exception is caught and dropped
AfterStageSwallowed(pc, raised) == NextPc(pc)

\* where control goes after a stage: on, or out of the coroutine with the
\* exception (no stage of the miss path is wrapped in try/except)
AfterStage(pc, raised) == IF raised THEN "done" ELSE NextPc(pc)

IdleTask ==
    [pc |-> "idle", query |-> "q1", collection |-> "docs", evaluate |-> FALSE,
     query_id |-> 0, point |-> NoPoint, lookup_time |-> 0, cache_fault |-> FALSE,
     cached |-> None, results |-> <<>>, sources |-> <<>>,
     llm_response |-> None, eval_scores |-> None, stages |-> <<>>,
     outcome |-> "none", error |-> "none", result |-> None]

\* a hit that hands the cached eval scores on
HitResultScored(query_id, cached) ==
    [query_id |-> query_id,
     answer |-> cached.answer,
     sources |-> cached.sources,
     eval_scores |-> cached.eval_scores,
     tokens_used |-> cached.tokens_used,
     latency_retrieval_ms |-> 0,
     latency_generation_ms |-> 0,
     model |-> cached.model,
     cache_hit |-> TRUE]

\* the QueryResult of a cache hit
HitResult(query_id, cached) ==
    [query_id |-> query_id,
     answer |-> cached.answer,
     sources |-> cached.sources,
     eval_scores |-> None,
     tokens_used |-> cached.tokens_used,
     latency_retrieval_ms |-> 0,
     latency_generation_ms |-> 0,
     model |-> cached.model,
     cache_hit |-> TRUE]

\* the QueryResult of a completed miss (latencies are positive measurements)
MissResult(t) ==
    [query_id |-> t.query_id,
     answer |-> t.llm_response.content,
     sources |-> t.sources,
     eval_scores |-> t.eval_scores,
     tokens_used |-> t.llm_response.tokens_used,
     latency_retrieval_ms |-> 7,
     latency_generation_ms |-> 90,
     model |-> default_model,
     cache_hit |-> FALSE]

\* the CachedResult the pipeline hands to cache_store
PipelineCachedResult(t) ==
    [answer |-> t.llm_response.content,
     sources |-> t.sources,
     eval_scores |-> t.eval_scores,
     model |-> default_model,
     tokens_used |-> t.llm_response.tokens_used,
     latency_ms |-> 100]

\* the frame's retrieval locals are gone once the coroutine has finished
Finished(t) == [t EXCEPT !.results = <<>>, !.sources = <<>>, !.eval_scores = None]

\* a statement of the coroutine raises err
Raise(t, pc, err) ==
    [Finished(t) EXCEPT !.pc = AfterStage(pc, TRUE), !.outcome = "raised",
                        !.error = err]

\* a cache_lookup without its handler: the exception leaves the pipeline
LookupRaisedOut(t) ==
    [t EXCEPT !.pc = "done", !.outcome = "raised", !.error = "cache",
              !.cache_fault = TRUE]

\* cache_lookup's handler (query_cache.py lines 110-112): the exception is
\* logged, None is returned and the pipeline goes on as on a miss
LookupRaised(t) ==
    [t EXCEPT !.pc = AfterStage("lookup", FALSE), !.cached = None,
              !.cache_fault = TRUE]

\* no library call under way
NoCall == [fn |-> "none"]

\* no run_batch_eval under way
IdleBatch ==
    [pc |-> "idle", test_set_id |-> "none", collection |-> "docs",
     questions |-> <<>>, i |-> 0, run_id |-> 0, results |-> <<>>,
     total_faithfulness |-> 0, total_relevance |-> 0,
     total_hallucination |-> 0, total_precision |-> 0, count |-> 0,
     raised_at |-> <<>>, outcome |-> "none", error |-> "none"]

\* no request line read yet
IdleMcp == [pc |-> "serving", log |-> <<>>]

\* the coroutines outside the query pipeline: one _process_ingestion per
\* job, one remove_collection and one sparse_search caller
Jobs == {1, 2}
Workers == {<<"ingest", j>> : j \in Jobs} \cup {<<"remove", 0>>, <<"search", 0>>}
NoWorker == <<"none", 0>>

IdleWorker ==
    [pc |-> "idle", collection |-> "docs", n |-> 0, i |-> 0, seen |-> <<>>,
     outcome |-> "none"]

\* no BM25Index in _bm25_cache, no index file, no vector collection, no job
NotCached == [cached |-> FALSE, documents |-> <<>>, built |-> 0]
NoFile == [exists |-> FALSE, documents |-> <<>>]
NoCollection == [exists |-> FALSE, points |-> {}]
NoJob == [status |-> "none", total_files |-> 0, processed_files |-> 0]

\* a fresh process over empty stores
IngestionAtRest ==
    /\ bm25_cache = [c \in Collections |-> NotCached]
    /\ bm25_files = [c \in Collections |-> NoFile]
    /\ vectors = [c \in Collections |-> NoCollection]
    /\ documents = {}
    /\ jobs = [j \in Jobs |-> NoJob]
    /\ uploads = {}
    /\ worker = [w \in Workers |-> IdleWorker]
    /\ running = NoWorker

\* the other components before anything has been asked of them
OthersAtRest == mcp = IdleMcp /\ IngestionAtRest

Init ==
    /\ now = 0
    /\ cache_enabled \in BOOLEAN
    /\ cacheExists \in BOOLEAN
    /\ cache_enabled = FALSE => cacheExists = FALSE
    /\ cache = [id \in PointIds |-> NoPoint]
    /\ stores = 0
    /\ query_log = {}
    /\ eval_results = {}
    /\ cache_stats = <<>>
    /\ uuid = 0
    /\ task = [p \in Procs |-> IdleTask]
    /\ call = NoCall
    /\ batch = IdleBatch
    /\ eval_runs = {}
    /\ OthersAtRest

\* time passes
Tick ==
    /\ \E d \in TickSteps : now + d <= MaxNow /\ now' = now + d
    /\ UNCHANGED aux
    /\ UNCHANGED <<cache_enabled, cacheExists, cache, stores, query_log,
                   eval_results, cache_stats, uuid, task>>

\* a call of cache_store(query, collection, result) with created_at =
\* time.time(), for a query of qs and a collection of cs
CacheStoreFor(qs, cs) ==
    /\ stores < MaxStores
    /\ \E q \in qs, c \in cs, ok \in BOOLEAN :
         /\ cache' = cache_store(cache, cache_enabled, ok, q, c, StoreResult(q), now)
         /\ cacheExists' = (cacheExists \/ (cache_enabled /\ ok))
    /\ stores' = stores + 1
    /\ UNCHANGED aux
    /\ UNCHANGED <<now, cache_enabled, query_log, eval_results, cache_stats,
                   uuid, task>>

CacheStoreCall == CacheStoreFor(Queries, Collections)

\* clear_cache: drop the collection _query_cache
ClearCache ==
    /\ cacheExists
    /\ cacheExists' = FALSE
    /\ cache' = [id \in PointIds |-> NoPoint]
    /\ UNCHANGED aux
    /\ UNCHANGED <<now, cache_enabled, stores, query_log, eval_results,
                   cache_stats, uuid, task>>

\* a request arrives: run_query_pipeline(query, collection, evaluate=...)
\* draws its query_id (lines 51-53)
StartQuery(p, qs, cs) ==
    /\ task[p].pc \in {"idle", "done"}
    /\ uuid < MaxUuid
    /\ uuid' = uuid + 1
    /\ \E q \in qs, c \in cs, ev \in BOOLEAN :
         task' = [task EXCEPT ![p] =
                    [IdleTask EXCEPT !.pc = "lookup", !.query = q,
                                     !.collection = c, !.evaluate = ev,
                                     !.query_id = uuid + 1]]
    /\ UNCHANGED aux
    /\ UNCHANGED <<now, cache_enabled, cacheExists, cache, stores, query_log,
                   eval_results, cache_stats>>

\* cache_lookup up to its first await (query_cache.py lines 62-96): embed the
\* query, fetch the top-1 point, read the clock.  With caching disabled, or
\* when embedding or the store query raises, it returns None at once.
PipeCacheQuery(p) ==
    LET t == task[p] IN
    /\ t.pc = "lookup"
    /\ \E ok \in BOOLEAN,
          pt \in (IF Top1(cache, t.query) = {} THEN {NoPoint}
                  ELSE {cache[id] : id \in Top1(cache, t.query)}) :
         /\ ok => cacheExists
         /\ task' = [task EXCEPT ![p] =
               IF cache_enabled /\ ok
               THEN [t EXCEPT !.pc = "cache_stat", !.point = pt,
                              !.lookup_time = now]
               ELSE IF cache_enabled
               THEN LookupRaised(t)
               ELSE [t EXCEPT !.pc = AfterStage("lookup", FALSE)]]
    /\ UNCHANGED aux
    /\ UNCHANGED <<now, cache_enabled, cacheExists, cache, stores, query_log,
                   eval_results, cache_stats, uuid>>

\* the rest of cache_lookup (lines 77, 82, 89, 95, 98-109): record the stat,
\* return; then run_query_pipeline returns the hit or goes on (lines 56-70)
PipeCacheReturn(p) ==
    LET t == task[p] IN
    /\ t.pc = "cache_stat"
    /\ \E dbOk \in BOOLEAN :
         LET cached == cache_lookup(t.point, t.query, t.collection,
                                    t.lookup_time)
             back == [t EXCEPT !.point = NoPoint, !.lookup_time = 0,
                               !.cached = cached]
         IN /\ cache_stats' = LookupStats(cache_stats, dbOk, t.point,
                                          t.query, t.collection, t.lookup_time)
            /\ task' = [task EXCEPT ![p] =
                 IF cached # None
                 THEN [back EXCEPT !.pc = "done", !.outcome = "returned",
                                   !.result = HitResult(t.query_id, cached)]
                 ELSE [back EXCEPT !.pc = AfterStage("lookup", FALSE)]]
    /\ UNCHANGED aux
    /\ UNCHANGED <<now, cache_enabled, cacheExists, cache, stores, query_log,
                   eval_results, uuid>>

\* results = hybrid_search(query, collection, ...) (lines 87-89)
PipeRetrieve(p) ==
    LET t == task[p] IN
    /\ t.pc = "retrieve"
    /\ \E ok \in BOOLEAN, r \in RetrievalResults :
         task' = [task EXCEPT ![p] =
                    IF ok
                    THEN [t EXCEPT !.pc = AfterStage("retrieve", FALSE),
                                   !.results = r,
                                   !.stages = Append(t.stages, "retrieval")]
                    ELSE Raise(t, "retrieve", "retrieval")]
    /\ UNCHANGED aux
    /\ UNCHANGED <<now, cache_enabled, cacheExists, cache, stores, query_log,
                   eval_results, cache_stats, uuid>>

\* build_prompt(query, results): greedy packing keeps a prefix of the results
\* (lines 91-92)
PipeBuildPrompt(p) ==
    LET t == task[p] IN
    /\ t.pc = "prompt"
    /\ \E ok \in BOOLEAN, n \in 0..Len(t.results) :
         task' = [task EXCEPT ![p] =
                    IF ok
                    THEN [t EXCEPT !.pc = AfterStage("prompt", FALSE),
                                   !.sources = SubSeq(t.results, 1, n),
                                   !.stages = Append(t.stages, "prompt")]
                    ELSE Raise(t, "prompt", "prompt")]
    /\ UNCHANGED aux
    /\ UNCHANGED <<now, cache_enabled, cacheExists, cache, stores, query_log,
                   eval_results, cache_stats, uuid>>

\* llm_response = await generate(messages, model_name) (lines 94-98)
PipeGenerate(p) ==
    LET t == task[p] IN
    /\ t.pc = "generate"
    /\ \E ok \in BOOLEAN, resp \in LLMResponses :
         task' = [task EXCEPT ![p] =
                    IF ok
                    THEN [t EXCEPT !.pc = AfterStage("generate", FALSE),
                                   !.llm_response = resp,
                                   !.stages = Append(t.stages, "generation")]
                    ELSE Raise(t, "generate", "generation")]
    /\ UNCHANGED aux
    /\ UNCHANGED <<now, cache_enabled, cacheExists, cache, stores, query_log,
                   eval_results, cache_stats, uuid>>

\* if evaluate: eval_scores = await evaluate_query(...) (lines 100-111);
\* the scorers fall back on a judge failure, so nothing is raised here
PipeEvaluate(p) ==
    LET t == task[p] IN
    /\ t.pc = "evaluate"
    /\ \E s \in EvalOutcomes :
         task' = [task EXCEPT ![p] =
                    IF t.evaluate
                    THEN [t EXCEPT !.pc = AfterStage("evaluate", FALSE),
                                   !.eval_scores = s,
                                   !.stages = Append(t.stages, "evaluation")]
                    ELSE [t EXCEPT !.pc = AfterStage("evaluate", FALSE)]]
    /\ UNCHANGED aux
    /\ UNCHANGED <<now, cache_enabled, cacheExists, cache, stores, query_log,
                   eval_results, cache_stats, uuid>>

\* the row insert_query_log writes
QueryLogRow(id, collection, query, answer) ==
    [id |-> id, collection |-> collection, query |-> query, answer |-> answer]

\* the row insert_eval_result writes
EvalResultRow(id, query_id, scores) ==
    [id |-> id, query_id |-> query_id, faithfulness |-> scores.faithfulness,
     relevance |-> scores.relevance]

\* insert_query_log, insert_eval_result, cache_store, return (lines 122-187).
\* The call of insert_query_log is bound first; no statement here is inside
\* a try block, so whatever it raises leaves the coroutine.
PipePersist(p) ==
    LET t == task[p] IN
    /\ t.pc = "persist"
    /\ \E dbOk1 \in BOOLEAN, dbOk2 \in BOOLEAN, storeOk \in BOOLEAN :
         IF ~CallBinds(PipelineQueryLogKwargs, InsertQueryLogParams)
         THEN /\ task' = [task EXCEPT ![p] = Raise(t, "persist", "TypeError")]
              /\ UNCHANGED <<query_log, eval_results, cache, cacheExists, uuid>>
         ELSE IF ~(dbOk1 /\ CanInsertQueryLog(query_log, t.query_id))
         THEN /\ task' = [task EXCEPT ![p] = Raise(t, "persist", "persistence")]
              /\ UNCHANGED <<query_log, eval_results, cache, cacheExists, uuid>>
         ELSE LET logs == query_log \cup
                            {QueryLogRow(t.query_id, t.collection, t.query,
                                         t.llm_response.content)}
                  logged == [t EXCEPT !.stages = Append(t.stages, "query_log")]
              IN /\ query_log' = logs
                 /\ IF t.eval_scores # None
                       /\ ~(dbOk2 /\ CanInsertEvalResult(eval_results, logs,
                                                         uuid + 1, t.query_id))
                    THEN /\ task' = [task EXCEPT ![p] =
                                       Raise(logged, "persist", "persistence")]
                         /\ UNCHANGED <<eval_results, cache, cacheExists, uuid>>
                    ELSE LET scored == t.eval_scores # None
                             st == IF scored
                                   THEN Append(logged.stages, "eval_result")
                                   ELSE logged.stages
                         IN /\ eval_results' =
                                  IF scored
                                  THEN eval_results \cup
                                         {EvalResultRow(uuid + 1, t.query_id,
                                                        t.eval_scores)}
                                  ELSE eval_results
                            /\ uuid' = IF scored THEN uuid + 1 ELSE uuid
                            /\ cache' = cache_store(cache, cache_enabled, storeOk,
                                                    t.query, t.collection,
                                                    PipelineCachedResult(t), now)
                            /\ cacheExists' =
                                  (cacheExists \/ (cache_enabled /\ storeOk))
                            /\ task' = [task EXCEPT ![p] =
                                  [Finished(t) EXCEPT
                                            !.pc = AfterStage("persist", FALSE),
                                            !.stages = Append(st, "cache_store"),
                                            !.outcome = "returned",
                                            !.result = MissResult(t)]]
    /\ UNCHANGED aux
    /\ UNCHANGED <<now, cache_enabled, stores, cache_stats>>

\* a call of insert_query_log with a fresh id and arguments it accepts
InsertQueryLogCall ==
    /\ uuid < MaxUuid
    /\ uuid' = uuid + 1
    /\ \E c \in Collections, dbOk \in BOOLEAN :
         query_log' =
            IF dbOk /\ CanInsertQueryLog(query_log, uuid + 1)
            THEN query_log \cup {QueryLogRow(uuid + 1, c, "q1", "a1")}
            ELSE query_log
    /\ UNCHANGED aux
    /\ UNCHANGED <<now, cache_enabled, cacheExists, cache, stores,
                   eval_results, cache_stats, task>>

\* a call of insert_eval_result with a fresh id, for any query id
InsertEvalResultCall ==
    /\ uuid < MaxUuid
    /\ uuid' = uuid + 1
    /\ \E qid \in 1..MaxUuid, s \in EvalOutcomes, dbOk \in BOOLEAN :
         eval_results' =
            IF dbOk /\ CanInsertEvalResult(eval_results, query_log, uuid + 1, qid)
            THEN eval_results \cup {EvalResultRow(uuid + 1, qid, s)}
            ELSE eval_results
    /\ UNCHANGED aux
    /\ UNCHANGED <<now, cache_enabled, cacheExists, cache, stores, query_log,
                   cache_stats, task>>

\* one request at a time in front of the semantic cache
Next ==
    \/ Tick
    \/ CacheStoreCall
    \/ ClearCache
    \/ StartQuery(1, Queries, Collections)
    \/ PipeCacheQuery(1)
    \/ PipeCacheReturn(1)
    \/ PipeRetrieve(1)
    \/ PipeBuildPrompt(1)
    \/ PipeGenerate(1)
    \/ PipeEvaluate(1)
    \/ PipePersist(1)

Spec == Init /\ [][Next]_vars

\* concurrent requests and callers of the relational store
NextStore ==
    \/ InsertQueryLogCall
    \/ InsertEvalResultCall
    \/ \E p \in Procs : StartQuery(p, {"q1"}, {"docs"})
    \/ \E p \in Procs : PipeCacheQuery(p)
    \/ \E p \in Procs : PipeCacheReturn(p)
    \/ \E p \in Procs : PipeRetrieve(p)
    \/ \E p \in Procs : PipeBuildPrompt(p)
    \/ \E p \in Procs : PipeGenerate(p)
    \/ \E p \in Procs : PipeEvaluate(p)
    \/ \E p \in Procs : PipePersist(p)

SpecStore == Init /\ [][NextStore]_vars

\* ------------------------------------------ hybrid ranker (hybrid_ranker.py)
\* A text is its first 200 characters (head, a sequence of characters) and an
\* identifier of whatever follows them (tail).
Texts == { [head |-> <<"a">>, tail |-> 0],
           [head |-> <<" ", "A">>, tail |-> 0],
           [head |-> <<"a">>, tail |-> 1],
           [head |-> <<"b">>, tail |-> 0],
           [head |-> <<"c">>, tail |-> 0] }

\* an optional argument: absent (None) or given
Absent == [some |-> FALSE, v |-> 0]
Some(v) == [some |-> TRUE, v |-> v]

\* str.strip()
RECURSIVE LStrip(_)
LStrip(s) == IF s # <<>> /\ Head(s) = " " THEN LStrip(Tail(s)) ELSE s

RECURSIVE RStrip(_)
RStrip(s) ==
    IF s # <<>> /\ s[Len(s)] = " " THEN RStrip(SubSeq(s, 1, Len(s) - 1)) ELSE s

Strip(s) == RStrip(LStrip(s))

\* str.lower()
Lower(s) == [i \in 1..Len(s) |-> IF s[i] = "A" THEN "a" ELSE s[i]]

\* a key that keeps the characters after the first 200
_result_key_whole(text) == <<Lower(Strip(text.head)), text.tail>>

\* text[:200].strip().lower()
_result_key(text) == <<Lower(Strip(text.head))>>

rrf_k == 60
default_top_k == 5
hybrid_alpha == 7

Min(a, b) == IF a < b THEN a ELSE b
Max(a, b) == IF a > b THEN a ELSE b

\* the candidate lists the two searches can produce: the result at position i
\* has the i-th best score of its side and chunk_index i
VectorScore(i) == 100 - 10 * i
SparseScore(i) == 10 - i

\* vector_search's SearchResult list and sparse_search's SparseResult list
\* for candidate texts in rank order
VectorResults(texts) ==
    [i \in 1..Len(texts) |-> [text |-> texts[i], score |-> VectorScore(i),
                              chunk_index |-> i]]

SparseResults(texts) ==
    [i \in 1..Len(texts) |-> [text |-> texts[i], score |-> SparseScore(i),
                              chunk_index |-> i]]

\* the lists of at most n different elements of S: a search returns a stored
\* chunk once
SeqsUpTo(S, n) ==
    {s \in UNION {[1..m -> S] : m \in 0..n} :
        \A i, j \in 1..Len(s) : i # j => s[i] # s[j]}

\* the common denominator of the reciprocal ranks 1/(rrf_k + rank + 1),
\* rank < n
RECURSIVE RankDenominator(_)
RankDenominator(n) ==
    IF n = 0 THEN 1 ELSE (rrf_k + n) * RankDenominator(n - 1)

\* 1.0 / (rrf_k + rank + 1), as a multiple of 1 / RankDenominator(n)
RrfScore(rank, n) == RankDenominator(n) \div (rrf_k + rank + 1)

\* position of key in the dict scores (0: not in it)
KeyIndex(scores, key) ==
    IF \E i \in 1..Len(scores) : scores[i].key = key
    THEN CHOOSE i \in 1..Len(scores) : scores[i].key = key
    ELSE 0

\* the first loop (lines 51-65) from position i on; a dict keeps its keys in
\* insertion order, so scores is a sequence of rows
RECURSIVE VectorLoop(_, _, _, _)
VectorLoop(scores, vector_results, i, n) ==
    IF i > Len(vector_results) THEN scores
    ELSE LET result == vector_results[i]
             key == _result_key(result.text)
             at == KeyIndex(scores, key)
             withKey == IF at = 0
                        THEN Append(scores,
                               [key |-> key, text |-> result.text,
                                vector_rrf |-> 0, sparse_rrf |-> 0,
                                vector_score |-> result.score,
                                sparse_score |-> 0,
                                chunk_index |-> result.chunk_index])
                        ELSE scores
             j == KeyIndex(withKey, key)
         IN VectorLoop([withKey EXCEPT ![j].vector_rrf = RrfScore(i - 1, n),
                                       ![j].vector_score = result.score],
                       vector_results, i + 1, n)

\* the second loop (lines 67-81)
RECURSIVE SparseLoop(_, _, _, _)
SparseLoop(scores, sparse_results, i, n) ==
    IF i > Len(sparse_results) THEN scores
    ELSE LET result == sparse_results[i]
             key == _result_key(result.text)
             at == KeyIndex(scores, key)
             withKey == IF at = 0
                        THEN Append(scores,
                               [key |-> key, text |-> result.text,
                                vector_rrf |-> 0, sparse_rrf |-> 0,
                                vector_score |-> 0,
                                sparse_score |-> result.score,
                                chunk_index |-> result.chunk_index])
                        ELSE scores
             j == KeyIndex(withKey, key)
         IN SparseLoop([withKey EXCEPT ![j].sparse_rrf = RrfScore(i - 1, n),
                                       ![j].sparse_score = result.score],
                       sparse_results, i + 1, n)

\* alpha * vector_rrf + (1 - alpha) * sparse_rrf, alpha in tenths
Combined(alpha, vector_rrf, sparse_rrf) ==
    alpha * vector_rrf + (10 - alpha) * sparse_rrf

\* RankedResult(...) for one row of scores (lines 84-96)
Ranked(data, alpha) ==
    [text |-> data.text,
     score |-> Combined(alpha, data.vector_rrf, data.sparse_rrf),
     vector_score |-> data.vector_score,
     sparse_score |-> data.sparse_score,
     chunk_index |-> data.chunk_index]

\* r put in front of the elements it ties with
InsertDescUnstable(sorted, r) ==
    LET n == Cardinality({i \in 1..Len(sorted) : sorted[i].score > r.score})
    IN SubSeq(sorted, 1, n) \o <<r>> \o SubSeq(sorted, n + 1, Len(sorted))

\* r put into a list sorted by descending score, behind every element that
\* does not score less
InsertDesc(sorted, r) ==
    LET n == Cardinality({i \in 1..Len(sorted) : sorted[i].score >= r.score})
    IN SubSeq(sorted, 1, n) \o <<r>> \o SubSeq(sorted, n + 1, Len(sorted))

\* ranked.sort(key=score, reverse=True): stable
RECURSIVE SortByScoreDesc(_)
SortByScoreDesc(ranked) ==
    IF ranked = <<>> THEN <<>>
    ELSE InsertDesc(SortByScoreDesc(SubSeq(ranked, 1, Len(ranked) - 1)),
                    ranked[Len(ranked)])

\* ranked[:top_k] for top_k >= 0
Truncate(ranked, top_k) == SubSeq(ranked, 1, Min(top_k, Len(ranked)))

reciprocal_rank_fusion(vector_results, sparse_results, alpha, top_k) ==
    LET n == Max(Len(vector_results), Len(sparse_results))
        afterVector == VectorLoop(<<>>, vector_results, 1, n)
        scores == SparseLoop(afterVector, sparse_results, 1, n)
        ranked == [i \in 1..Len(scores) |-> Ranked(scores[i], alpha)]
    IN Truncate(SortByScoreDesc(ranked), top_k)

\* top_k or settings.default_top_k: None and 0 are both falsy
OrDefault(top_k) == IF top_k.some /\ top_k.v # 0 THEN top_k.v ELSE default_top_k

\* alpha if alpha is not None else settings.hybrid_alpha
AlphaOrDefault(alpha) == IF alpha.some THEN alpha.v ELSE hybrid_alpha

\* vector_search / sparse_search with limit k over a side's candidates
SubSearch(candidates, k) == Truncate(candidates, OrDefault(Some(k)))

\* hybrid_search: [raised, out].  No statement of it is inside a try block,
\* so an exception of either search leaves it.
hybrid_search(vector, sparse, vectorOk, sparseOk, top_k, alpha) ==
    LET k == OrDefault(top_k)
        weight == AlphaOrDefault(alpha)
        fetch_k == k * 3
    IN IF ~vectorOk \/ ~sparseOk
       THEN [raised |-> TRUE, out |-> <<>>]
       ELSE [raised |-> FALSE,
             out |-> reciprocal_rank_fusion(SubSearch(vector, fetch_k),
                                            SubSearch(sparse, fetch_k),
                                            weight, k)]

\* every variable of the query pipeline at its value after start-up
PipelineAtRest ==
    /\ now = 0
    /\ cache_enabled = FALSE
    /\ cacheExists = FALSE
    /\ cache = [id \in PointIds |-> NoPoint]
    /\ stores = 0
    /\ query_log = {}
    /\ eval_results = {}
    /\ cache_stats = <<>>
    /\ uuid = 0
    /\ task = [p \in Procs |-> IdleTask]

pipeline == <<now, cache_enabled, cacheExists, cache, stores, query_log,
              eval_results, cache_stats, uuid, task>>

Alphas == {0, 5, 10}

\* a caller about to search: the candidates of both sides and the arguments
InitRank ==
    /\ PipelineAtRest
    /\ batch = IdleBatch
    /\ eval_runs = {}
    /\ OthersAtRest
    /\ \E vt \in SeqsUpTo(Texts, MaxVector), st \in SeqsUpTo(Texts, MaxSparse),
          a \in {Absent} \cup {Some(x) : x \in Alphas},
          k \in {Absent} \cup {Some(x) : x \in 0..MaxTopK} :
         call = [fn |-> "ready",
                 vector |-> VectorResults(vt),
                 sparse |-> SparseResults(st),
                 alpha |-> a, top_k |-> k]

\* hybrid_search(query, collection, top_k, alpha)
HybridSearchCall ==
    /\ call.fn = "ready"
    /\ \E vectorOk \in BOOLEAN, sparseOk \in BOOLEAN :
         LET r == hybrid_search(call.vector, call.sparse, vectorOk, sparseOk,
                                call.top_k, call.alpha)
         IN call' = [fn |-> "hybrid_search", vector |-> call.vector,
                     sparse |-> call.sparse, alpha |-> call.alpha,
                     top_k |-> call.top_k, vectorOk |-> vectorOk,
                     sparseOk |-> sparseOk, raised |-> r.raised, out |-> r.out]
    /\ UNCHANGED <<pipeline, batch, eval_runs, others>>

\* reciprocal_rank_fusion(vector_results, sparse_results, alpha, top_k) called
\* with both arguments given
RrfCall ==
    /\ call.fn = "ready"
    /\ call.alpha.some /\ call.top_k.some
    /\ call' = [fn |-> "reciprocal_rank_fusion", vector |-> call.vector,
                sparse |-> call.sparse, alpha |-> call.alpha,
                top_k |-> call.top_k, vectorOk |-> TRUE, sparseOk |-> TRUE,
                raised |-> FALSE,
                out |-> reciprocal_rank_fusion(call.vector, call.sparse,
                                               call.alpha.v, call.top_k.v)]
    /\ UNCHANGED <<pipeline, batch, eval_runs, others>>

NextRank == HybridSearchCall \/ RrfCall

SpecRank == InitRank /\ [][NextRank]_vars

\* ------------------------------------------------ auto-tuner (auto_tune.py)
MIN_QUERIES_FOR_TUNING == 10

\* columns of table query_log as SCHEMA creates it
QueryLogColumns == {"id", "collection", "query", "answer", "sources", "model",
                    "tokens_used", "latency_ms", "latency_retrieval_ms",
                    "latency_generation_ms", "created_at"}

\* columns of query_log the SELECT of get_optimal_params names
TuneSelectColumns == {"alpha", "top_k", "id", "collection", "created_at"}

\* round(): to the nearest integer, halves to the even one; x is n / d
RoundDiv(n, d) ==
    LET q == n \div d
        r == n % d
    IN IF 2 * r < d THEN q
       ELSE IF 2 * r > d THEN q + 1
       ELSE IF q % 2 = 0 THEN q ELSE q + 1

\* round(round(alpha_val / 0.1) * 0.1, 1), alpha in hundredths
BinnedAlpha(alpha_val) == RoundDiv(alpha_val, 10) * 10

\* dict.setdefault(key, []).append(quality) on an insertion-ordered dict
SetDefaultAppend(buckets, key, quality) ==
    IF \E i \in 1..Len(buckets) : buckets[i].key = key
    THEN LET i == CHOOSE i \in 1..Len(buckets) : buckets[i].key = key
         IN [buckets EXCEPT ![i].scores = Append(buckets[i].scores, quality)]
    ELSE Append(buckets, [key |-> key, scores |-> <<quality>>])

\* row[2] + row[3]: twice the quality (row[2] + row[3]) / 2
Quality2(row) == row.faithfulness + row.relevance

\* the alpha buckets after the rows from position i on (lines 43-50)
RECURSIVE AlphaBuckets(_, _, _)
AlphaBuckets(buckets, rows, i) ==
    IF i > Len(rows) THEN buckets
    ELSE AlphaBuckets(SetDefaultAppend(buckets, BinnedAlpha(rows[i].alpha),
                                       Quality2(rows[i])),
                      rows, i + 1)

\* the top_k buckets (lines 52-53): rows without top_k are left out
RECURSIVE TopKBuckets(_, _, _)
TopKBuckets(buckets, rows, i) ==
    IF i > Len(rows) THEN buckets
    ELSE TopKBuckets(IF rows[i].top_k.some
                     THEN SetDefaultAppend(buckets, rows[i].top_k.v,
                                           Quality2(rows[i]))
                     ELSE buckets,
                     rows, i + 1)

RECURSIVE SumSeq(_)
SumSeq(s) == IF s = <<>> THEN 0 ELSE Head(s) + SumSeq(Tail(s))

\* the best-bucket loop (lines 56-63, 66-73) from position i on; best is the
\* bucket found so far (0: none, best score -1.0).  avg > best_score is
\* compared exactly, as sum / len.
RECURSIVE BestBucket(_, _, _)
BestBucket(buckets, i, best) ==
    IF i > Len(buckets) THEN best
    ELSE LET scores == buckets[i].scores
             better ==
                 /\ Len(scores) >= 3
                 /\ \/ best = 0
                    \/ SumSeq(scores) * Len(buckets[best].scores)
                         > SumSeq(buckets[best].scores) * Len(scores)
         IN BestBucket(buckets, i + 1, IF better THEN i ELSE best)

BestKey(buckets) ==
    LET b == BestBucket(buckets, 1, 0)
    IN IF b = 0 THEN Absent ELSE Some(buckets[b].key)

\* get_optimal_params for a collection whose evaluated queries, newest first
\* and with the alpha and top_k each was run with, are rows.  The SELECT
\* raises when it names a column the table does not have; the handler at
\* lines 76-78 turns that into (None, None).
get_optimal_params(rows) ==
    IF ~(TuneSelectColumns \subseteq QueryLogColumns)
    THEN [alpha |-> Absent, top_k |-> Absent]
    ELSE IF Len(rows) < MIN_QUERIES_FOR_TUNING
    THEN [alpha |-> Absent, top_k |-> Absent]
    ELSE [alpha |-> BestKey(AlphaBuckets(<<>>, rows, 1)),
          top_k |-> BestKey(TopKBuckets(<<>>, rows, 1))]

\* the kinds of evaluated query in a collection's history
RowKinds == << [alpha |-> 30, top_k |-> Some(5), faithfulness |-> 80,
                relevance |-> 80],
               [alpha |-> 34, top_k |-> Some(3), faithfulness |-> 60,
                relevance |-> 60],
               [alpha |-> 70, top_k |-> Absent, faithfulness |-> 90,
                relevance |-> 50] >>

Orders == { <<1, 2, 3>>, <<1, 3, 2>>, <<2, 1, 3>>, <<2, 3, 1>>, <<3, 1, 2>>,
            <<3, 2, 1>> }

Repeat(x, n) == [i \in 1..n |-> x]

\* a caller about to tune a collection with a history of evaluated queries
InitTune ==
    /\ PipelineAtRest
    /\ batch = IdleBatch
    /\ eval_runs = {}
    /\ OthersAtRest
    /\ \E o \in Orders, n \in [1..3 -> 0..MaxRepeat] :
         call = [fn |-> "ready",
                 rows |-> Repeat(RowKinds[o[1]], n[o[1]])
                            \o Repeat(RowKinds[o[2]], n[o[2]])
                            \o Repeat(RowKinds[o[3]], n[o[3]])]

\* get_optimal_params(collection)
GetOptimalParamsCall ==
    /\ call.fn = "ready"
    /\ call' = [fn |-> "get_optimal_params", rows |-> call.rows,
                out |-> get_optimal_params(call.rows)]
    /\ UNCHANGED <<pipeline, batch, eval_runs, others>>

NextTune == GetOptimalParamsCall

SpecTune == InitTune /\ [][NextTune]_vars

\* ------------------------------------------- prompt builder (prompt_builder.py)
\* A string is the sequence of its tokens, so count_tokens is its length and
\* the tokens of a concatenation are those of its parts.
count_tokens(text) == Len(text)

SYSTEM_PROMPT == <<"You", "are", "precise">>

max_context_tokens == 4096

\* the 200 tokens build_prompt sets aside
ReservedTokens == 200

\* "\n\n---\n\n".join(parts)
RECURSIVE JoinParts(_)
JoinParts(parts) ==
    IF parts = <<>> THEN <<>>
    ELSE IF Len(parts) = 1 THEN parts[1]
    ELSE parts[1] \o <<"---">> \o JoinParts(Tail(parts))

\* f"{source_label} ({source_detail}):\n{result.text}"
ContextPart(i, result) == <<"[Source", i, "(chunk):">> \o result.text

\* the loop of lines 37-57 from position i on: [parts, sources, used]
RECURSIVE PackChunks(_, _, _, _)
PackChunks(acc, results, i, token_budget) ==
    IF i > Len(results) THEN acc
    ELSE LET chunk_tokens == count_tokens(results[i].text)
         IN IF acc.used + chunk_tokens > token_budget THEN acc
            ELSE PackChunks([parts |-> Append(acc.parts, ContextPart(i, results[i])),
                             sources |-> Append(acc.sources, i),
                             used |-> acc.used + chunk_tokens],
                            results, i + 1, token_budget)

\* max_context_tokens or settings.max_context_tokens
MaxTokens(given) == IF given.some /\ given.v # 0 THEN given.v ELSE max_context_tokens

build_prompt(query, results, given) ==
    LET max_tokens == MaxTokens(given)
        token_budget == max_tokens - count_tokens(SYSTEM_PROMPT)
                          - count_tokens(query) - ReservedTokens
        packed == PackChunks([parts |-> <<>>, sources |-> <<>>, used |-> 0],
                             results, 1, token_budget)
        context_block == JoinParts(packed.parts)
    IN [system_prompt |-> SYSTEM_PROMPT,
        user_prompt |-> <<"Context:">> \o context_block \o <<"Question:">>
                          \o query \o <<"Answer", "the", "question">>,
        sources |-> packed.sources,
        token_budget |-> token_budget]

PromptQueries == { <<"q">>, <<"q", "q">> }
ChunkTexts == { <<"w">>, <<"w", "w", "w">> }

\* explicit context sizes that leave a budget of 0..MaxBudget for a
\* one-token query
ContextSizes ==
    {ReservedTokens + count_tokens(SYSTEM_PROMPT) + 1 + b : b \in 0..MaxBudget}

\* a caller about to build a prompt
InitPrompt ==
    /\ PipelineAtRest
    /\ batch = IdleBatch
    /\ eval_runs = {}
    /\ OthersAtRest
    /\ \E q \in PromptQueries,
          texts \in UNION {[1..m -> ChunkTexts] : m \in 0..MaxChunks},
          given \in {Absent} \cup {Some(m) : m \in ContextSizes} :
         call = [fn |-> "ready", query |-> q,
                 results |-> [i \in 1..Len(texts) |-> [text |-> texts[i]]],
                 given |-> given]

\* build_prompt(query, results, max_context_tokens)
BuildPromptCall ==
    /\ call.fn = "ready"
    /\ call' = [fn |-> "build_prompt", query |-> call.query,
                results |-> call.results, given |-> call.given,
                out |-> build_prompt(call.query, call.results, call.given)]
    /\ UNCHANGED <<pipeline, batch, eval_runs, others>>

NextPrompt == BuildPromptCall

SpecPrompt == InitPrompt /\ [][NextPrompt]_vars

\* ------------------------------------------------- LLM router (llm_client.py)
\* the characters of the model names and prefixes in use
Chars ==
    [n \in {"claude-3", "clau", "gpt-4", "o1", "o3-mini", "llama3", "claude",
            "gpt", "o3", default_model} |->
       CASE n = "claude-3" -> <<"c", "l", "a", "u", "d", "e", "-", "3">>
         [] n = "clau" -> <<"c", "l", "a", "u">>
         [] n = "gpt-4" -> <<"g", "p", "t", "-", "4">>
         [] n = "o1" -> <<"o", "1">>
         [] n = "o3-mini" -> <<"o", "3", "-", "m", "i", "n", "i">>
         [] n = "llama3" -> <<"l", "l", "a", "m", "a", "3">>
         [] n = "claude" -> <<"c", "l", "a", "u", "d", "e">>
         [] n = "gpt" -> <<"g", "p", "t">>
         [] n = "o3" -> <<"o", "3">>
         [] OTHER -> <<"q", "w", "e", "n", "2", ".", "5", "-", "c", "o", "d",
                       "e", "r", ":", "1", "4", "b">>]

ModelNames == {"claude-3", "clau", "gpt-4", "o1", "o3-mini", "llama3"}

\* str.startswith(prefix), and with a tuple of prefixes
StartsWith(name, prefix) ==
    /\ Len(Chars[name]) >= Len(Chars[prefix])
    /\ SubSeq(Chars[name], 1, Len(Chars[prefix])) = Chars[prefix]

StartsWithAny(name, prefixes) == \E p \in prefixes : StartsWith(name, p)

\* no model argument
NoModel == [some |-> FALSE, v |-> ""]

\* model or settings.default_model: None and "" are both falsy
ModelName(model) == IF model.some /\ model.v # "" THEN model.v ELSE default_model

\* the provider generate and generate_stream hand the request to (lines
\* 35-41, 50-61); a key is configured when it is a non-empty string
Route(model_name, anthropic_api_key, openai_api_key) ==
    IF anthropic_api_key /\ StartsWith(model_name, "claude") THEN "anthropic"
    ELSE IF openai_api_key /\ StartsWithAny(model_name, {"gpt", "o1", "o3"})
    THEN "openai"
    ELSE "ollama"

\* a caller about to generate, under some configuration of the keys
InitRoute ==
    /\ PipelineAtRest
    /\ batch = IdleBatch
    /\ eval_runs = {}
    /\ OthersAtRest
    /\ \E m \in {NoModel} \cup {Some(n) : n \in ModelNames \cup {""}},
          ak \in BOOLEAN, ok \in BOOLEAN :
         call = [fn |-> "ready", model |-> m, anthropic_api_key |-> ak,
                 openai_api_key |-> ok]

\* the call record once the request went to sent_to and that provider
\* answered or failed
Routed(fn, c, providerOk, chunks) ==
    [fn |-> fn, model |-> c.model, anthropic_api_key |-> c.anthropic_api_key,
     openai_api_key |-> c.openai_api_key,
     sent_to |-> Route(ModelName(c.model), c.anthropic_api_key,
                       c.openai_api_key),
     raised |-> ~providerOk, chunks |-> chunks]

\* await generate(messages, model)
GenerateCall ==
    /\ call.fn = "ready"
    /\ \E providerOk \in BOOLEAN :
         call' = Routed("generate", call, providerOk, IF providerOk THEN 1 ELSE 0)
    /\ UNCHANGED <<pipeline, batch, eval_runs, others>>

\* async for chunk in generate_stream(messages, model): the provider fails
\* at the start or after some chunks
GenerateStreamCall ==
    /\ call.fn = "ready"
    /\ \E providerOk \in BOOLEAN, n \in 0..MaxStreamChunks :
         call' = Routed("generate_stream", call, providerOk, n)
    /\ UNCHANGED <<pipeline, batch, eval_runs, others>>

NextRoute == GenerateCall \/ GenerateStreamCall

SpecRoute == InitRoute /\ [][NextRoute]_vars

\* --------------------------------------- run_batch_eval (eval_pipeline.py)
\* the questions a stored test set may hold
QuestionItems == { [question |-> "q1", ground_truth |-> TRUE],
                   [question |-> "q2", ground_truth |-> FALSE] }

\* what the judge may answer for context recall
RecallScores == {50}

\* total / count if count > 0 else None
Average(total, count) ==
    IF count > 0 THEN [num |-> total, den |-> count] ELSE None

\* the row INSERT INTO eval_runs writes (lines 212-216)
RunningRow(run_id, test_set_id) ==
    [id |-> run_id, test_set_id |-> test_set_id, status |-> "running",
     results |-> <<>>, avg_faithfulness |-> None, avg_relevance |-> None,
     avg_hallucination_rate |-> None, avg_context_precision |-> None]

\* the row after UPDATE eval_runs SET status = 'completed', ... (lines 282-296)
CompletedRow(row, b) ==
    [row EXCEPT !.status = "completed",
                !.results = b.results,
                !.avg_faithfulness = Average(b.total_faithfulness, b.count),
                !.avg_relevance = Average(b.total_relevance, b.count),
                !.avg_hallucination_rate = Average(b.total_hallucination, b.count),
                !.avg_context_precision = Average(b.total_precision, b.count)]

\* a question's exception left uncaught: it ends the batch
QuestionFailedAborts(b, question, err) ==
    [b EXCEPT !.pc = "done", !.outcome = "raised", !.error = err]

\* except Exception (lines 268-273): the error is logged and recorded, the
\* loop goes on
QuestionFailed(b, question, err) ==
    [b EXCEPT !.results = Append(b.results, [question |-> question,
                                             error |-> err]),
              !.i = b.i + 1, !.pc = "loop"]

\* lines 241-266 for a returned QueryResult: a result without eval_scores
\* (a cache hit) adds nothing
QuestionAnswered(b, q_item, query_result, recall) ==
    IF query_result.eval_scores # None
    THEN LET e == query_result.eval_scores
         IN [b EXCEPT
               !.results = Append(b.results,
                   [question |-> q_item.question,
                    answer |-> query_result.answer,
                    ground_truth |-> q_item.ground_truth,
                    faithfulness |-> e.faithfulness,
                    relevance |-> e.relevance,
                    hallucination_rate |-> e.hallucination_rate,
                    context_precision |-> e.context_precision,
                    context_recall |-> IF q_item.ground_truth THEN recall ELSE 0]),
               !.total_faithfulness = b.total_faithfulness + e.faithfulness,
               !.total_relevance = b.total_relevance + e.relevance,
               !.total_hallucination = b.total_hallucination + e.hallucination_rate,
               !.total_precision = b.total_precision + e.context_precision,
               !.count = b.count + 1,
               !.i = b.i + 1, !.pc = "loop"]
    ELSE [b EXCEPT !.i = b.i + 1, !.pc = "loop"]

\* run_batch_eval(test_set_id) up to the loop (lines 194-226): read the test
\* set, insert the run
BatchStart ==
    /\ batch.pc = "idle"
    /\ \E id \in {"ts1", "missing"}, dbOk \in BOOLEAN,
          qs \in UNION {[1..m -> QuestionItems] : m \in 0..MaxQuestions} :
         IF id = "missing"
         THEN /\ batch' = [batch EXCEPT !.pc = "done", !.test_set_id = id,
                                        !.outcome = "raised",
                                        !.error = "ValueError"]
              /\ UNCHANGED eval_runs
         ELSE IF ~dbOk
         THEN /\ batch' = [batch EXCEPT !.pc = "done", !.test_set_id = id,
                                        !.outcome = "raised", !.error = "store"]
              /\ UNCHANGED eval_runs
         ELSE LET run_id == Cardinality(eval_runs) + 1
              IN /\ eval_runs' = eval_runs \cup {RunningRow(run_id, id)}
                 /\ batch' = [batch EXCEPT !.pc = "loop", !.test_set_id = id,
                                           !.questions = qs, !.i = 1,
                                           !.run_id = run_id]
    /\ UNCHANGED <<pipeline, call, others>>

\* the loop calls run_query_pipeline(query=question, collection=collection,
\* evaluate=True) for the next question (lines 228-239)
BatchAsk ==
    /\ batch.pc = "loop"
    /\ batch.i <= Len(batch.questions)
    /\ task[1].pc \in {"idle", "done"}
    /\ uuid' = uuid + 1
    /\ task' = [task EXCEPT ![1] =
                  [IdleTask EXCEPT !.pc = "lookup",
                                   !.query = batch.questions[batch.i].question,
                                   !.collection = batch.collection,
                                   !.evaluate = TRUE,
                                   !.query_id = uuid + 1]]
    /\ batch' = [batch EXCEPT !.pc = "await"]
    /\ UNCHANGED <<now, cache_enabled, cacheExists, cache, stores, query_log,
                   eval_results, cache_stats, call, eval_runs, others>>

\* the pipeline call returns or raises (lines 233-273)
BatchCollect ==
    /\ batch.pc = "await"
    /\ task[1].pc = "done"
    /\ LET t == task[1]
           q_item == batch.questions[batch.i]
       IN IF t.outcome = "raised"
          THEN batch' = [QuestionFailed(batch, q_item.question, t.error)
                           EXCEPT !.raised_at = Append(batch.raised_at, batch.i)]
          ELSE \E recall \in RecallScores :
                 batch' = QuestionAnswered(batch, q_item, t.result, recall)
    /\ task' = [task EXCEPT ![1] = IdleTask]
    /\ UNCHANGED <<now, cache_enabled, cacheExists, cache, stores, query_log,
                   eval_results, cache_stats, uuid, call, eval_runs, others>>

\* after the loop (lines 275-313): the averages, the UPDATE, the return
BatchFinish ==
    /\ batch.pc = "loop"
    /\ batch.i > Len(batch.questions)
    /\ \E dbOk \in BOOLEAN :
         IF dbOk
         THEN /\ eval_runs' = {IF r.id = batch.run_id THEN CompletedRow(r, batch)
                               ELSE r : r \in eval_runs}
              /\ batch' = [batch EXCEPT !.pc = "done", !.outcome = "returned"]
         ELSE /\ batch' = [batch EXCEPT !.pc = "done", !.outcome = "raised",
                                        !.error = "store"]
              /\ UNCHANGED eval_runs
    /\ UNCHANGED <<pipeline, call, others>>

\* one batch evaluation over the query pipeline and its cache
NextBatch ==
    \/ BatchStart
    \/ BatchAsk
    \/ BatchCollect
    \/ BatchFinish
    \/ CacheStoreFor({"q1"}, {"docs"})
    \/ PipeCacheQuery(1)
    \/ PipeCacheReturn(1)
    \/ PipeRetrieve(1)
    \/ PipeBuildPrompt(1)
    \/ PipeGenerate(1)
    \/ PipeEvaluate(1)
    \/ PipePersist(1)

SpecBatch == Init /\ [][NextBatch]_vars

\* the event loop runs whatever is ready, and every await of the batch ends
\* (the HTTP clients have timeouts)
SpecBatchLive == SpecBatch /\ WF_vars(NextBatch)

\* --------------------------------------------- evaluation metrics (metrics.py)
\* A score is a fraction [num, den] with den > 0.
Frac(n, d) == [num |-> n, den |-> d]

\* max(0.0, min(1.0, score))
Clamp01(score) ==
    IF score.num < 0 THEN Frac(0, 1)
    ELSE IF score.num > score.den THEN Frac(1, 1)
    ELSE score

\* min(1.0, score) and max(0.0, score)
Min1(score) == IF score.num > score.den THEN Frac(1, 1) ELSE score
Max0(score) == IF score.num < 0 THEN Frac(0, 1) ELSE score

IsDigit(c) == c \in {"0", "1", "7"}
DigitValue(c) == IF c = "0" THEN 0 ELSE IF c = "1" THEN 1 ELSE 7

\* the length of the run of digits of s that starts at position i
RECURSIVE DigitRun(_, _)
DigitRun(s, i) ==
    IF i <= Len(s) /\ IsDigit(s[i]) THEN 1 + DigitRun(s, i + 1) ELSE 0

RECURSIVE Pow10(_)
Pow10(n) == IF n = 0 THEN 1 ELSE 10 * Pow10(n - 1)

\* int() of the digits s[i..j]
RECURSIVE DigitsValue(_, _, _)
DigitsValue(s, i, j) ==
    IF j < i THEN 0 ELSE 10 * DigitsValue(s, i, j - 1) + DigitValue(s[j])

\* float(numbers[0]) for re.findall(r"(\d+\.?\d*)", text): the first match
\* starts at the first digit, takes the digits, a point if one follows, and
\* the digits after it
FirstNumber(s) ==
    LET i == CHOOSE i \in 1..Len(s) :
                 IsDigit(s[i]) /\ \A j \in 1..(i - 1) : ~IsDigit(s[j])
        n == DigitRun(s, i)
        point == i + n <= Len(s) /\ s[i + n] = "."
        m == IF point THEN DigitRun(s, i + n + 1) ELSE 0
    IN Frac(DigitsValue(s, i, i + n - 1) * Pow10(m)
              + DigitsValue(s, i + n + 1, i + n + m),
            Pow10(m))

_parse_score(text) ==
    LET s == Strip(text)
    IN IF \A i \in 1..Len(s) : ~IsDigit(s[i]) THEN Frac(5, 10)
       ELSE Clamp01(FirstNumber(s))

\* set(text.lower().split()) of a text given as its sequence of words
WordSet(words) == {words[i] : i \in 1..Len(words)}

\* " ".join(context_chunks)
RECURSIVE Flatten(_)
Flatten(chunks) == IF chunks = <<>> THEN <<>> ELSE Head(chunks) \o Flatten(Tail(chunks))

_heuristic_faithfulness(answer, context_chunks) ==
    IF context_chunks = <<>> THEN Frac(0, 1)
    ELSE LET answer_words == WordSet(answer)
             context_words == WordSet(Flatten(context_chunks))
         IN IF answer_words = {} THEN Frac(0, 1)
            ELSE Min1(Frac(Cardinality(answer_words \cap context_words),
                           Cardinality(answer_words)))

_heuristic_relevance(query, answer) ==
    LET query_words == WordSet(query)
        answer_words == WordSet(answer)
    IN IF query_words = {} THEN Frac(0, 1)
       ELSE Min1(Frac(Cardinality(query_words \cap answer_words),
                      Cardinality(query_words)))

_heuristic_hallucination(answer, context_chunks) ==
    LET faithfulness == _heuristic_faithfulness(answer, context_chunks)
    IN Max0(Frac(faithfulness.den - faithfulness.num, faithfulness.den))

\* overlap >= max(1, len(query_terms) * 0.2)
OverlapsEnough(query_terms, chunk_terms) ==
    LET overlap == Cardinality(query_terms \cap chunk_terms)
    IN overlap >= 1 /\ 10 * overlap >= 2 * Cardinality(query_terms)

\* compute_context_precision; relevant_indices is NoIndices (None) or a list
compute_context_precision(query, context_chunks, relevant_indices) ==
    IF context_chunks = <<>> THEN Frac(0, 1)
    ELSE IF relevant_indices.some
    THEN Frac(Len(relevant_indices.v), Len(context_chunks))
    ELSE Frac(Cardinality({i \in 1..Len(context_chunks) :
                             OverlapsEnough(WordSet(query),
                                            WordSet(context_chunks[i]))}),
              Len(context_chunks))

NoIndices == [some |-> FALSE, v |-> <<>>]

ScoreChars == {"0", "1", "7", ".", "-", "x", " "}
Words == {"w1", "w2"}
WordTexts == UNION {[1..m -> Words] : m \in 0..2}

\* a caller about to score: a judge response to parse, or an answer, a query
\* and chunks for the heuristics and the context precision
InitMetrics ==
    /\ PipelineAtRest
    /\ batch = IdleBatch
    /\ eval_runs = {}
    /\ OthersAtRest
    /\ \/ \E text \in UNION {[1..m -> ScoreChars] : m \in 0..MaxScoreText} :
            call = [fn |-> "ready", kind |-> "parse", text |-> text]
       \/ \E query \in WordTexts, answer \in WordTexts,
             chunks \in UNION {[1..m -> WordTexts \ {<<>>}] : m \in 0..MaxChunks - 1},
             idx \in {NoIndices}
                     \cup {Some(l) : l \in UNION {[1..m -> 0..1] : m \in 0..MaxIndices}} :
            call = [fn |-> "ready", kind |-> "texts", query |-> query,
                    answer |-> answer, chunks |-> chunks, indices |-> idx]

\* _parse_score(response.content)
ParseScoreCall ==
    /\ call.fn = "ready" /\ call.kind = "parse"
    /\ call' = [fn |-> "_parse_score", text |-> call.text,
                out |-> _parse_score(call.text)]
    /\ UNCHANGED <<pipeline, batch, eval_runs, others>>

\* the fallbacks of a failed judge call (lines 55-57, 87-89, 124-126)
HeuristicCall ==
    /\ call.fn = "ready" /\ call.kind = "texts"
    /\ \E f \in {"_heuristic_faithfulness", "_heuristic_relevance",
                 "_heuristic_hallucination"} :
         call' = [fn |-> f, query |-> call.query, answer |-> call.answer,
                  chunks |-> call.chunks, indices |-> NoIndices,
                  out |-> CASE f = "_heuristic_faithfulness" ->
                                 _heuristic_faithfulness(call.answer, call.chunks)
                            [] f = "_heuristic_relevance" ->
                                 _heuristic_relevance(call.query, call.answer)
                            [] OTHER ->
                                 _heuristic_hallucination(call.answer, call.chunks)]
    /\ UNCHANGED <<pipeline, batch, eval_runs, others>>

\* compute_context_precision(query, context_chunks, relevant_indices)
ContextPrecisionCall ==
    /\ call.fn = "ready" /\ call.kind = "texts"
    /\ call' = [fn |-> "compute_context_precision", query |-> call.query,
                answer |-> call.answer, chunks |-> call.chunks,
                indices |-> call.indices,
                out |-> compute_context_precision(call.query, call.chunks,
                                                  call.indices)]
    /\ UNCHANGED <<pipeline, batch, eval_runs, others>>

NextMetrics == ParseScoreCall \/ HeuristicCall \/ ContextPrecisionCall

SpecMetrics == InitMetrics /\ [][NextMetrics]_vars


\* ------------------------------------------- evaluate_query (metrics.py)
Scorers == {"faithfulness", "relevance", "hallucination_rate", "context_recall"}

\* what the judge's generate call does for one scorer: raise, or answer text
JudgeFailed == [ok |-> FALSE, text |-> <<>>]
JudgeTexts == { <<"0", ".", "7">> }
JudgeOutcomes == {JudgeFailed} \cup {[ok |-> TRUE, text |-> s] : s \in JudgeTexts}

\* try: return _parse_score((await generate(...)).content)
\* except Exception: return <fallback>
Judged(judge, fallback) ==
    IF judge.ok THEN [raised |-> FALSE, v |-> _parse_score(judge.text)]
    ELSE [raised |-> FALSE, v |-> fallback]

\* a scorer's early return
Early(v) == [raised |-> FALSE, v |-> v]

\* texts are sequences of words: answer.strip() is empty iff there is no word
compute_faithfulness(query, answer, context_chunks, judge) ==
    IF answer = <<>> \/ context_chunks = <<>> THEN Early(Frac(0, 1))
    ELSE Judged(judge, _heuristic_faithfulness(answer, context_chunks))

compute_relevance(query, answer, judge) ==
    IF answer = <<>> THEN Early(Frac(0, 1))
    ELSE Judged(judge, _heuristic_relevance(query, answer))

compute_hallucination_rate(answer, context_chunks, judge) ==
    IF answer = <<>> THEN Early(Frac(0, 1))
    ELSE Judged(judge, _heuristic_hallucination(answer, context_chunks))

compute_context_recall(answer, ground_truth, context_chunks, judge) ==
    IF ground_truth = <<>> THEN Early(Frac(0, 1))
    ELSE Judged(judge, Frac(5, 10))

\* evaluate_query: the scorers in the order of lines 199-213; an exception of
\* a scorer would leave evaluate_query (there is no handler in it).
\* ground_truth <<>> stands for None and for the empty string.
evaluate_query(query, answer, context_chunks, ground_truth, lightweight, judges) ==
    LET f == compute_faithfulness(query, answer, context_chunks,
                                  judges["faithfulness"])
        r == compute_relevance(query, answer, judges["relevance"])
        h == IF lightweight THEN Early(Frac(0, 1))
             ELSE compute_hallucination_rate(answer, context_chunks,
                                             judges["hallucination_rate"])
        p == IF lightweight THEN Frac(0, 1)
             ELSE compute_context_precision(query, context_chunks, NoIndices)
        c == IF ground_truth = <<>> THEN Early(None)
             ELSE compute_context_recall(answer, ground_truth, context_chunks,
                                         judges["context_recall"])
    IN [raised |-> f.raised \/ r.raised \/ h.raised \/ c.raised,
        scores |-> [faithfulness |-> f.v, relevance |-> r.v,
                    hallucination_rate |-> h.v, context_precision |-> p,
                    context_recall |-> c.v]]

\* the words of the pipeline's queries, answers and retrieved chunks
QueryWords(q) == IF q = "q2" THEN <<"w2">> ELSE <<"w1">>
AnswerWords(a) == IF a = "a1" THEN <<"w1">> ELSE <<"w2", "w1">>
ChunkWords(rank) == <<"w1">>

\* the record of one evaluate_query call
EvaluateQueryRecord(query_id, query, answer, chunks, ground_truth, lightweight, judges) ==
    [fn |-> "evaluate_query", query_id |-> query_id, query |-> query,
     answer |-> answer, chunks |-> chunks, ground_truth |-> ground_truth,
     lightweight |-> lightweight, judges |-> judges,
     out |-> evaluate_query(query, answer, chunks, ground_truth, lightweight,
                            judges)]

\* evaluate_query called on its own (query_id 0: outside any pipeline run)
EvaluateQueryCall ==
    /\ call.fn = "none"
    /\ \E query \in {<<"w1">>}, answer \in {<<"w1", "w2">>},
          chunks \in {<< <<"w1">> >>}, ground_truth \in {<<>>, <<"w1">>},
          lightweight \in BOOLEAN, judges \in [Scorers -> JudgeOutcomes] :
         call' = EvaluateQueryRecord(0, query, answer, chunks, ground_truth,
                                     lightweight, judges)
    /\ UNCHANGED <<pipeline, batch, eval_runs, others>>

\* lines 100-111 with the judge calls spelled out: context_chunks is every
\* retrieved result's text and no ground truth is passed, so the recall
\* judge is never called (its outcome is fixed here)
PipeEvaluateJudged(p) ==
    LET t == task[p] IN
    /\ t.pc = "evaluate"
    /\ \E lightweight \in BOOLEAN,
          judges \in {j \in [Scorers -> JudgeOutcomes] :
                        j["context_recall"] = JudgeFailed} :
         LET rec == EvaluateQueryRecord(
                        t.query_id, QueryWords(t.query),
                        AnswerWords(t.llm_response.content),
                        [i \in 1..Len(t.results) |-> ChunkWords(t.results[i])],
                        <<>>, lightweight, judges)
         IN IF ~t.evaluate
            THEN /\ task' = [task EXCEPT ![p] =
                               [t EXCEPT !.pc = AfterStage("evaluate", FALSE)]]
                 /\ UNCHANGED call
            ELSE /\ call' = rec
                 /\ task' = [task EXCEPT ![p] =
                      IF rec.out.raised
                      THEN Raise(t, "evaluate", "evaluation")
                      ELSE [t EXCEPT !.pc = AfterStage("evaluate", FALSE),
                                     !.eval_scores = rec.out.scores,
                                     !.stages = Append(t.stages, "evaluation")]]
    /\ UNCHANGED <<batch, eval_runs, others>>
    /\ UNCHANGED <<now, cache_enabled, cacheExists, cache, stores, query_log,
                   eval_results, cache_stats, uuid>>

NextEval ==
    \/ EvaluateQueryCall
    \/ StartQuery(1, {"q1"}, {"docs"})
    \/ PipeCacheQuery(1)
    \/ PipeCacheReturn(1)
    \/ PipeRetrieve(1)
    \/ PipeBuildPrompt(1)
    \/ PipeGenerate(1)
    \/ PipeEvaluateJudged(1)
    \/ PipePersist(1)

SpecEval == Init /\ [][NextEval]_vars

\* ------------------------------------------ BM25 index (sparse_search.py)
\* BM25Okapi.get_scores (rank_bm25) gives one number per document; which
\* numbers is the library's business, so they are inputs here
Bm25Scores == -1..2

\* sorted(enumerate(scores), key=lambda x: x[1], reverse=True)[:k]
ScoredIndices(scores, k) ==
    Truncate(SortByScoreDesc([i \in 1..Len(scores) |->
                                 [idx |-> i - 1, score |-> scores[i]]]), k)

\* the loop of lines 56-66: hits with score <= 0 are skipped
PositiveHits(docs, scored_indices) ==
    LET kept == SelectSeq(scored_indices, LAMBDA x : ~(x.score <= 0))
    IN [i \in 1..Len(kept) |-> [text |-> docs[kept[i].idx + 1],
                                score |-> kept[i].score,
                                chunk_index |-> kept[i].idx]]

\* BM25Index.search(query, top_k) on an index holding the documents docs, whose
\* BM25Okapi scores the query with scores.  build() leaves bm25 None only
\* for an empty document list.
BM25Index_search(docs, scores, top_k) ==
    IF docs = <<>> THEN <<>>
    ELSE PositiveHits(docs, ScoredIndices(scores, OrDefault(top_k)))

\* an index of n documents (each stands for its position), the scores of a
\* query against it and the caller's top_k
InitBm25 ==
    /\ PipelineAtRest
    /\ batch = IdleBatch
    /\ eval_runs = {}
    /\ OthersAtRest
    /\ \E n \in 0..MaxDocs :
         \E scores \in [1..n -> Bm25Scores],
            k \in {Absent} \cup {Some(x) : x \in 0..MaxTopK} :
           call = [fn |-> "ready", documents |-> [i \in 1..n |-> i],
                   scores |-> scores, top_k |-> k]

\* index.search(query, top_k)
Bm25SearchCall ==
    /\ call.fn = "ready"
    /\ call' = [fn |-> "BM25Index.search", documents |-> call.documents,
                scores |-> call.scores, top_k |-> call.top_k,
                out |-> BM25Index_search(call.documents, call.scores,
                                         call.top_k)]
    /\ UNCHANGED <<pipeline, batch, eval_runs, others>>

NextBm25 == Bm25SearchCall

SpecBm25 == InitBm25 /\ [][NextBm25]_vars

\* ----------------------------------------------- MCP server (mcp_server.py)
\* the methods handle_request knows, and the methods a client may send
HandledMethods == {"initialize", "notifications/initialized", "tools/list",
                   "tools/call"}
McpMethods == HandledMethods \cup {"resources/list"}
McpTools == {"rag_query", "rag_retrieve", "rag_ingest_text", "rag_collections",
             "rag_metrics"}

\* the tools that read args["query"] or args["text"] (lines 64, 84, 110)
NeedsArgument == {"rag_query", "rag_retrieve", "rag_ingest_text"}

\* a line of stdin after decode and strip: empty, text that is no JSON, a
\* JSON value that is no object, or a request object.  has_argument says
\* that the arguments of a tools/call hold the tool's required key.
McpLines ==
    { [kind |-> k, method |-> "", id |-> 0, name |-> "", has_argument |-> FALSE]
        : k \in {"blank", "garbage", "array"} }
    \cup { [kind |-> "object", method |-> m, id |-> 1, name |-> "",
            has_argument |-> FALSE] : m \in McpMethods \ {"tools/call"} }
    \cup { [kind |-> "object", method |-> "tools/call", id |-> 1, name |-> n,
            has_argument |-> a] : n \in McpTools \cup {"rag_delete"},
                                  a \in BOOLEAN }

\* json.loads(line_str)
JsonLoadsLine(line) == IF line.kind = "garbage" THEN JsonError ELSE Parsed(line)

\* nothing written for a line
NoReply == [jsonrpc |-> "none", id |-> 0, kind |-> "none", code |-> 0,
            tool_error |-> FALSE]

_ok(req_id, tool_error) ==
    [jsonrpc |-> "2.0", id |-> req_id, kind |-> "result", code |-> 0,
     tool_error |-> tool_error]

_error(req_id, code) ==
    [jsonrpc |-> "2.0", id |-> req_id, kind |-> "error", code |-> code,
     tool_error |-> FALSE]

\* _call_tool: [raised, error]; error says that the dict returned is
\* {"error": ...}.  toolOk: everything the tool calls goes through.
_call_tool(name, has_argument, toolOk) ==
    IF name \in McpTools
    THEN [raised |-> (name \in NeedsArgument /\ ~has_argument) \/ ~toolOk,
          error |-> FALSE]
    ELSE [raised |-> FALSE, error |-> TRUE]

\* handle_request: [raised, response]; request.get raises on a value that is
\* no object, and an exception of _call_tool passes through
handle_request(request, toolOk) ==
    IF request.kind # "object" THEN [raised |-> TRUE, response |-> NoReply]
    ELSE IF request.method = "initialize"
    THEN [raised |-> FALSE, response |-> _ok(request.id, FALSE)]
    ELSE IF request.method = "notifications/initialized"
    THEN [raised |-> FALSE, response |-> NoReply]
    ELSE IF request.method = "tools/list"
    THEN [raised |-> FALSE, response |-> _ok(request.id, FALSE)]
    ELSE IF request.method = "tools/call"
    THEN LET result == _call_tool(request.name, request.has_argument, toolOk)
         IN IF result.raised THEN [raised |-> TRUE, response |-> NoReply]
            ELSE [raised |-> FALSE, response |-> _ok(request.id, result.error)]
    ELSE [raised |-> FALSE, response |-> _error(request.id, -32601)]

\* one turn of main_async's loop on a line that is not end of input (lines
\* 252-270): only json.JSONDecodeError is caught, anything else leaves
\* main_async
McpServe ==
    /\ mcp.pc = "serving"
    /\ Len(mcp.log) < MaxLines
    /\ \E line \in McpLines, toolOk \in BOOLEAN :
         LET entry(reply) == [line |-> line, toolOk |-> toolOk, reply |-> reply]
             request == JsonLoadsLine(line)
             handled == handle_request(request.v, toolOk)
         IN mcp' =
              IF line.kind = "blank"
              THEN [mcp EXCEPT !.log = Append(mcp.log, entry(NoReply))]
              ELSE IF ~request.ok
              THEN [mcp EXCEPT !.log = Append(mcp.log, entry(_error(0, -32700)))]
              ELSE IF handled.raised
              THEN [pc |-> "crashed", log |-> Append(mcp.log, entry(NoReply))]
              ELSE [mcp EXCEPT !.log = Append(mcp.log, entry(handled.response))]
    /\ UNCHANGED <<pipeline, call, batch, eval_runs, ingestion>>

\* readline returns b"" at end of input: break (lines 253-254)
McpEndOfInput ==
    /\ mcp.pc = "serving"
    /\ mcp' = [mcp EXCEPT !.pc = "stopped"]
    /\ UNCHANGED <<pipeline, call, batch, eval_runs, ingestion>>

InitMcp ==
    /\ PipelineAtRest
    /\ call = NoCall
    /\ batch = IdleBatch
    /\ eval_runs = {}
    /\ OthersAtRest

NextMcp == McpServe \/ McpEndOfInput

SpecMcp == InitMcp /\ [][NextMcp]_vars

\* ------------- ingestion and the sparse index (ingest.py, sparse_search.py)
\* Everything runs on one asyncio event loop (every route handler and the
\* background task are coroutines; no thread is started), so a coroutine
\* keeps the loop from one suspension to the next.  The calls that suspend
\* are the relational store's (aiosqlite); ensure_collection, store_chunks
\* and delete_collection are coroutines without an await in them, and
\* add_to_index, delete_index and sparse_search are plain functions.

\* the statements at which a coroutine is suspended or not running: before
\* it starts, at insert_document, update_ingestion_job, delete_collection_docs
SuspendedAt == {"idle", "done", "start", "insert_doc", "progress", "complete",
                "fail", "delete_docs"}

Suspends(pc) == pc \in SuspendedAt

\* the loop runs w when w holds it or nobody does
MayRun(w) == running \in {NoWorker, w}

\* w goes on as rec; it keeps the loop unless rec is at a suspension
Goto(w, rec) ==
    /\ worker' = [worker EXCEPT ![w] = rec]
    /\ running' = IF Suspends(rec.pc) THEN NoWorker ELSE w

At(w, pc) == [worker[w] EXCEPT !.pc = pc]

\* the document of file i of job j (uuid4 per file, line 205)
DocId(j, i) == <<j, i>>

outside == <<pipeline, call, batch, eval_runs, mcp>>

\* get_or_create_index(collection_name): the cached index, else the index
\* loaded from its file, else a new empty one; the result is in the cache
get_or_create_index(entry, file) ==
    IF entry.cached THEN entry
    ELSE IF file.exists
    THEN [cached |-> TRUE, documents |-> file.documents,
          built |-> Len(file.documents)]
    ELSE [cached |-> TRUE, documents |-> <<>>, built |-> 0]

\* the files accepted so far by the jobs of S
RECURSIVE StagedFiles(_)
StagedFiles(S) ==
    IF S = {} THEN 0
    ELSE LET j == CHOOSE x \in S : TRUE
         IN  jobs[j].total_files + StagedFiles(S \ {j})

\* POST /api/ingest once validation and the health check have passed (lines
\* 117-140): the job row, the staged files, the background task
IngestAccept(j) ==
    LET w == <<"ingest", j>> IN
    /\ MayRun(w)
    /\ worker[w].pc = "idle"
    /\ \E n \in 1..(MaxFiles - StagedFiles(Jobs)) :
         /\ jobs' = [jobs EXCEPT ![j] = [status |-> "processing",
                                         total_files |-> n,
                                         processed_files |-> 0]]
         /\ uploads' = uploads \cup {DocId(j, i) : i \in 1..n}
         /\ Goto(w, [worker[w] EXCEPT !.pc = "start", !.n = n, !.i = 1])
    /\ UNCHANGED <<bm25_cache, bm25_files, vectors, documents>>
    /\ UNCHANGED outside

\* await ensure_collection(collection) (line 199); a failure goes to the
\* outer handler (lines 267-269)
IngestEnsure(j) ==
    LET w == <<"ingest", j>>
        c == worker[w].collection
    IN
    /\ MayRun(w)
    /\ worker[w].pc = "start"
    /\ \E ok \in BOOLEAN :
         IF ok
         THEN /\ vectors' = [vectors EXCEPT ![c].exists = TRUE]
              /\ Goto(w, At(w, "load"))
         ELSE /\ UNCHANGED vectors
              /\ Goto(w, At(w, "fail"))
    /\ UNCHANGED <<bm25_cache, bm25_files, documents, jobs, uploads>>
    /\ UNCHANGED outside

\* the head of the loop and lines 204-227: load, chunk, embed, store_chunks.
\* A file without chunks is skipped (continue), an exception goes to the
\* inner handler; both pass through the finally clause.  store_chunks fails
\* when the collection is gone.
IngestStore(j) ==
    LET w == <<"ingest", j>>
        c == worker[w].collection
    IN
    /\ MayRun(w)
    /\ worker[w].pc = "load"
    /\ IF worker[w].i > worker[w].n
       THEN /\ Goto(w, At(w, "complete"))
            /\ UNCHANGED vectors
       ELSE \E result \in {"stored", "empty", "error"} :
              IF result = "stored" /\ vectors[c].exists
              THEN /\ vectors' = [vectors EXCEPT ![c].points =
                                     @ \cup {DocId(j, worker[w].i)}]
                   /\ Goto(w, At(w, "extend"))
              ELSE /\ UNCHANGED vectors
                   /\ Goto(w, At(w, "unlink"))
    /\ UNCHANGED <<bm25_cache, bm25_files, documents, jobs, uploads>>
    /\ UNCHANGED outside

\* add_to_index, first part (lines 131-132, 100-101): get the index, extend it
IngestExtend(j) ==
    LET w == <<"ingest", j>>
        c == worker[w].collection
        index == get_or_create_index(bm25_cache[c], bm25_files[c])
    IN
    /\ MayRun(w)
    /\ worker[w].pc = "extend"
    /\ bm25_cache' = [bm25_cache EXCEPT ![c] =
                        [index EXCEPT !.documents =
                            Append(@, DocId(j, worker[w].i))]]
    /\ Goto(w, At(w, "build"))
    /\ UNCHANGED <<bm25_files, vectors, documents, jobs, uploads>>
    /\ UNCHANGED outside

\* add_documents, last statement (lines 102, 33-38): self.build()
IngestBuild(j) ==
    LET w == <<"ingest", j>>
        c == worker[w].collection
    IN
    /\ MayRun(w)
    /\ worker[w].pc = "build"
    /\ bm25_cache' = [bm25_cache EXCEPT ![c].built = Len(bm25_cache[c].documents)]
    /\ Goto(w, At(w, "save"))
    /\ UNCHANGED <<bm25_files, vectors, documents, jobs, uploads>>
    /\ UNCHANGED outside

\* index.save() (lines 133, 70-79): the whole list is written; a failed
\* write goes to the inner handler
IngestSave(j) ==
    LET w == <<"ingest", j>>
        c == worker[w].collection
    IN
    /\ MayRun(w)
    /\ worker[w].pc = "save"
    /\ \E ok \in BOOLEAN :
         IF ok
         THEN /\ bm25_files' = [bm25_files EXCEPT ![c] =
                                  [exists |-> TRUE,
                                   documents |-> bm25_cache[c].documents]]
              /\ Goto(w, At(w, "insert_doc"))
         ELSE /\ UNCHANGED bm25_files
              /\ Goto(w, At(w, "unlink"))
    /\ UNCHANGED <<bm25_cache, vectors, documents, jobs, uploads>>
    /\ UNCHANGED outside

\* await insert_document(...) (lines 236-244)
IngestInsertDocument(j) ==
    LET w == <<"ingest", j>>
        c == worker[w].collection
    IN
    /\ MayRun(w)
    /\ worker[w].pc = "insert_doc"
    /\ \E dbOk \in BOOLEAN :
         IF dbOk
         THEN /\ documents' = documents \cup
                                {[id |-> DocId(j, worker[w].i), collection |-> c]}
              /\ Goto(w, At(w, "progress"))
         ELSE /\ UNCHANGED documents
              /\ Goto(w, At(w, "unlink"))
    /\ UNCHANGED <<bm25_cache, bm25_files, vectors, jobs, uploads>>
    /\ UNCHANGED outside

\* await update_ingestion_job(job_id, processed_files=i + 1, ...) (lines
\* 246-251); its failure goes to the inner handler
IngestProgress(j) ==
    LET w == <<"ingest", j>> IN
    /\ MayRun(w)
    /\ worker[w].pc = "progress"
    /\ \E dbOk \in BOOLEAN :
         jobs' = IF dbOk
                 THEN [jobs EXCEPT ![j].processed_files = worker[w].i]
                 ELSE jobs
    /\ Goto(w, At(w, "unlink"))
    /\ UNCHANGED <<bm25_cache, bm25_files, vectors, documents, uploads>>
    /\ UNCHANGED outside

\* finally: file_path.unlink() (lines 256-258), then the next file
IngestUnlink(j) ==
    LET w == <<"ingest", j>> IN
    /\ MayRun(w)
    /\ worker[w].pc = "unlink"
    /\ uploads' = uploads \ {DocId(j, worker[w].i)}
    /\ Goto(w, [worker[w] EXCEPT !.pc = "load", !.i = @ + 1])
    /\ UNCHANGED <<bm25_cache, bm25_files, vectors, documents, jobs>>
    /\ UNCHANGED outside

\* await update_ingestion_job(job_id, status="completed", ...) (lines
\* 260-265); its failure goes to the outer handler
IngestComplete(j) ==
    LET w == <<"ingest", j>> IN
    /\ MayRun(w)
    /\ worker[w].pc = "complete"
    /\ \E dbOk \in BOOLEAN :
         IF dbOk
         THEN /\ jobs' = [jobs EXCEPT ![j].status = "completed",
                                      ![j].processed_files = worker[w].n]
              /\ Goto(w, [worker[w] EXCEPT !.pc = "done", !.outcome = "returned"])
         ELSE /\ UNCHANGED jobs
              /\ Goto(w, At(w, "fail"))
    /\ UNCHANGED <<bm25_cache, bm25_files, vectors, documents, uploads>>
    /\ UNCHANGED outside

\* the outer handler (lines 267-269): await update_ingestion_job(job_id,
\* status="failed", ...); when that raises too the exception leaves the task
IngestFail(j) ==
    LET w == <<"ingest", j>> IN
    /\ MayRun(w)
    /\ worker[w].pc = "fail"
    /\ \E dbOk \in BOOLEAN :
         IF dbOk
         THEN /\ jobs' = [jobs EXCEPT ![j].status = "failed"]
              /\ Goto(w, [worker[w] EXCEPT !.pc = "done", !.outcome = "returned"])
         ELSE /\ UNCHANGED jobs
              /\ Goto(w, [worker[w] EXCEPT !.pc = "done", !.outcome = "raised"])
    /\ UNCHANGED <<bm25_cache, bm25_files, vectors, documents, uploads>>
    /\ UNCHANGED outside

RemoveWorker == <<"remove", 0>>
SearchWorker == <<"search", 0>>

\* DELETE /api/collections/{name}, first statement (lines 183, 151-157):
\* delete_collection swallows the vector store's error and returns False
RemoveVectors ==
    LET w == RemoveWorker
        c == worker[w].collection
    IN
    /\ MayRun(w)
    /\ worker[w].pc = "idle"
    /\ \E ok \in BOOLEAN :
         vectors' = IF ok THEN [vectors EXCEPT ![c] = NoCollection] ELSE vectors
    /\ Goto(w, At(w, "delete_docs"))
    /\ UNCHANGED <<bm25_cache, bm25_files, documents, jobs, uploads>>
    /\ UNCHANGED outside

\* await delete_collection_docs(name) (line 184; models.py 326-335); its
\* failure leaves the handler
RemoveDocuments ==
    LET w == RemoveWorker
        c == worker[w].collection
    IN
    /\ MayRun(w)
    /\ worker[w].pc = "delete_docs"
    /\ \E dbOk \in BOOLEAN :
         IF dbOk
         THEN /\ documents' = {d \in documents : d.collection # c}
              /\ Goto(w, At(w, "unlink_index"))
         ELSE /\ UNCHANGED documents
              /\ Goto(w, [worker[w] EXCEPT !.pc = "done", !.outcome = "raised"])
    /\ UNCHANGED <<bm25_cache, bm25_files, vectors, jobs, uploads>>
    /\ UNCHANGED outside

\* delete_index, first part (lines 148-150): the file is removed
RemoveIndexFile ==
    LET w == RemoveWorker
        c == worker[w].collection
    IN
    /\ MayRun(w)
    /\ worker[w].pc = "unlink_index"
    /\ bm25_files' = [bm25_files EXCEPT ![c] = NoFile]
    /\ Goto(w, At(w, "pop"))
    /\ UNCHANGED <<bm25_cache, vectors, documents, jobs, uploads>>
    /\ UNCHANGED outside

\* delete_index, last statement (line 151), and the handler's return
RemoveIndexPop ==
    LET w == RemoveWorker
        c == worker[w].collection
    IN
    /\ MayRun(w)
    /\ worker[w].pc = "pop"
    /\ bm25_cache' = [bm25_cache EXCEPT ![c] = NotCached]
    /\ Goto(w, [worker[w] EXCEPT !.pc = "done", !.outcome = "returned"])
    /\ UNCHANGED <<bm25_files, vectors, documents, jobs, uploads>>
    /\ UNCHANGED outside

\* sparse_search, first statements (lines 141-143)
SearchGet ==
    LET w == SearchWorker
        c == worker[w].collection
        index == get_or_create_index(bm25_cache[c], bm25_files[c])
    IN
    /\ MayRun(w)
    /\ worker[w].pc = "idle"
    /\ bm25_cache' = [bm25_cache EXCEPT ![c] = index]
    /\ IF index.documents = <<>>
       THEN Goto(w, [worker[w] EXCEPT !.pc = "done", !.outcome = "returned"])
       ELSE Goto(w, At(w, "rank"))
    /\ UNCHANGED <<bm25_files, vectors, documents, jobs, uploads>>
    /\ UNCHANGED outside

\* index.search(query, top_k) (lines 144, 40-68) reads the document list
SearchRank ==
    LET w == SearchWorker
        c == worker[w].collection
    IN
    /\ MayRun(w)
    /\ worker[w].pc = "rank"
    /\ Goto(w, [worker[w] EXCEPT !.pc = "done", !.outcome = "returned",
                                 !.seen = bm25_cache[c].documents])
    /\ UNCHANGED <<bm25_cache, bm25_files, vectors, documents, jobs, uploads>>
    /\ UNCHANGED outside

\* the next search request
SearchAgain ==
    LET w == SearchWorker IN
    /\ MayRun(w)
    /\ worker[w].pc = "done"
    /\ Goto(w, IdleWorker)
    /\ UNCHANGED <<bm25_cache, bm25_files, vectors, documents, jobs, uploads>>
    /\ UNCHANGED outside

InitIngest == Init /\ cache_enabled /\ cacheExists

NextIngest ==
    \/ \E j \in Jobs :
         \/ IngestAccept(j)
         \/ IngestEnsure(j)
         \/ IngestStore(j)
         \/ IngestExtend(j)
         \/ IngestBuild(j)
         \/ IngestSave(j)
         \/ IngestInsertDocument(j)
         \/ IngestProgress(j)
         \/ IngestUnlink(j)
         \/ IngestComplete(j)
         \/ IngestFail(j)
    \/ RemoveVectors
    \/ RemoveDocuments
    \/ RemoveIndexFile
    \/ RemoveIndexPop
    \/ SearchGet
    \/ SearchRank
    \/ SearchAgain

SpecIngest == InitIngest /\ [][NextIngest]_vars

\* ------------- a query after the deletion of its collection
\* An answer is stored for the collection, the collection is deleted, and a
\* query on it is made once remove_collection has returned.

Removed ==
    worker[RemoveWorker].pc = "done" /\ worker[RemoveWorker].outcome = "returned"

\* cache_store of an answer of the collection, before its deletion starts
StoreBeforeRemoval ==
    /\ worker[RemoveWorker].pc = "idle"
    /\ CacheStoreFor({"q1"}, {worker[RemoveWorker].collection})

\* run_query_pipeline on the collection after remove_collection returned
QueryAfterRemoval ==
    /\ Removed
    /\ StartQuery(1, {"q1"}, {worker[RemoveWorker].collection})

NextRemove ==
    \/ Tick
    \/ StoreBeforeRemoval
    \/ RemoveVectors
    \/ RemoveDocuments
    \/ RemoveIndexFile
    \/ RemoveIndexPop
    \/ QueryAfterRemoval
    \/ PipeCacheQuery(1)
    \/ PipeCacheReturn(1)
    \/ PipeRetrieve(1)
    \/ PipeBuildPrompt(1)
    \/ PipeGenerate(1)
    \/ PipeEvaluate(1)
    \/ PipePersist(1)

SpecRemove == Init /\ [][NextRemove]_vars

\* ------------------------------------------------------------------ claims
HasStage(t, name) == \E i \in 1..Len(t.stages) : t.stages[i] = name

\* the step in which p's cache_lookup returns
LookupReturns(p) == task[p].pc = "cache_stat" /\ task'[p].pc # "cache_stat"

\* C1: a lookup whose top-1 point is older than cache_ttl_seconds returns no
\* entry and the pipeline goes on to retrieval, whatever the point's
\* similarity and collection.
C1_ExpiredEntryMisses ==
    [][\A p \in Procs :
         (/\ LookupReturns(p)
          /\ task[p].point # NoPoint
          /\ task[p].lookup_time - task[p].point.created_at > cache_ttl_seconds)
         => (task'[p].cached = None /\ task'[p].pc = "retrieve")]_vars

\* a lookup has fetched a point aged cache_ttl_seconds + 1 that clears the
\* threshold and is of the lookup's collection
C1_Witness ==
    \E p \in Procs :
        /\ task[p].pc = "cache_stat"
        /\ task[p].point # NoPoint
        /\ task[p].lookup_time - task[p].point.created_at = cache_ttl_seconds + 1
        /\ Cosine(task[p].query, task[p].point.query) >= cache_threshold
        /\ task[p].point.collection = task[p].collection

\* C2: a lookup that returns an entry returns one stored for the lookup's
\* collection.
C2_NoCrossCollectionHit ==
    [][\A p \in Procs :
         (LookupReturns(p) /\ task'[p].cached # None)
         => (task[p].point # NoPoint
             /\ task[p].point.collection = task[p].collection)]_vars

\* a lookup has fetched a fresh point of another collection that clears the
\* threshold
C2_Witness ==
    \E p \in Procs :
        /\ task[p].pc = "cache_stat"
        /\ task[p].point # NoPoint
        /\ task[p].point.collection # task[p].collection
        /\ Cosine(task[p].query, task[p].point.query) >= cache_threshold
        /\ task[p].lookup_time - task[p].point.created_at <= cache_ttl_seconds


\* a cache miss whose retrieval, prompt building and generation all came through
Generated(t) == HasStage(t, "generation")

\* C3: with caching enabled, the first request on an empty cache misses,
\* generates, returns its answer and leaves it in the cache, so that a
\* request for any query at least cache_threshold similar, same collection,
\* issued at once, is answered from the cache with the same answer.
C3_MissThenHit ==
    \A p \in Procs :
        LET t == task[p]
            entry == cache[PointId(t.query, t.collection)]
        IN (/\ cache_enabled /\ cacheExists /\ stores = 0 /\ now = 0
            /\ t.query_id = 1 /\ t.pc = "done" /\ ~t.cache_fault
            /\ Generated(t))
           => /\ t.outcome = "returned"
              /\ ~t.result.cache_hit
              /\ entry # NoPoint
              /\ \A q \in Queries :
                    Cosine(q, t.query) >= cache_threshold
                    => LET hit == cache_lookup(entry, q, t.collection, now)
                       IN hit # None /\ hit.answer = t.result.answer

\* C4: once generation has succeeded the request returns the generated
\* answer, whatever happens while the QueryLog and EvalResult rows are written.
C4_PersistenceErrorsSwallowed ==
    \A p \in Procs :
        LET t == task[p]
        IN (t.pc = "done" /\ Generated(t))
           => /\ t.outcome = "returned"
              /\ t.result.answer = t.llm_response.content

C6_HitResult ==
    [][\A p \in Procs :
         (LookupReturns(p) /\ task'[p].cached # None)
         => LET r == task'[p].result
                stored == task[p].point
            IN /\ task'[p].pc = "done"
               /\ task'[p].outcome = "returned"
               /\ task'[p].stages = <<>>
               /\ r.cache_hit
               /\ r.latency_retrieval_ms = 0
               /\ r.latency_generation_ms = 0
               /\ r.eval_scores = None
               /\ r.answer = stored.answer
               /\ JsonDumpsList(r.sources) = stored.sources
               /\ r.model = stored.model
               /\ r.tokens_used = stored.tokens_used]_vars

\* a request has been answered from an entry stored with sources and scores
C6_Witness ==
    \E p \in Procs :
        /\ task[p].pc = "done"
        /\ task[p].cached # None
        /\ task[p].cached.eval_scores # None
        /\ task[p].result.cache_hit
        /\ task[p].result.sources = <<1, 2>>

\* C7: every cache_lookup that got the store's answer (a point or none) adds
\* exactly one row to cache_stats: 'hit' with the stored latency_ms when it
\* returns an entry, 'miss' otherwise.
C7_OneStatPerLookup ==
    [][\A p \in Procs :
         (cache_enabled /\ LookupReturns(p))
         => /\ Len(cache_stats') = Len(cache_stats) + 1
            /\ LET row == cache_stats'[Len(cache_stats')]
               IN IF task'[p].cached # None
                  THEN /\ row.hit_or_miss = "hit"
                       /\ row.saved_latency_ms = task'[p].cached.latency_ms
                  ELSE row.hit_or_miss = "miss"]_vars

\* C8: a request in which retrieval, prompt building or generation raised
\* has ended with that error and has written no QueryLog row, no EvalResult
\* row and no cache entry.
C8_FatalStageErrors ==
    \A p \in Procs :
        LET t == task[p]
        IN t.error \in {"retrieval", "prompt", "generation"}
           => /\ t.pc = "done"
              /\ t.outcome = "raised"
              /\ t.result = None
              /\ \A r \in query_log : r.id # t.query_id
              /\ \A e \in eval_results : e.query_id # t.query_id
              /\ ~HasStage(t, "query_log")
              /\ ~HasStage(t, "eval_result")
              /\ ~HasStage(t, "cache_store")

\* a request has ended with the error its generate call raised
C8_Witness ==
    \E p \in Procs :
        /\ task[p].error = "generation"
        /\ task[p].pc = "done"
        /\ HasStage(task[p], "prompt")

\* the order of the stages of a miss as the specification gives it
ClaimedOrder(evaluate) ==
    IF evaluate
    THEN <<"retrieval", "prompt", "generation", "evaluation", "query_log",
           "eval_result", "cache_store">>
    ELSE <<"retrieval", "prompt", "generation", "query_log", "cache_store">>

C10_EvalResultHasQueryLog ==
    \A e \in eval_results : \E q \in query_log : q.id = e.query_id

\* an eval_results row has been written
C10_Witness ==
    eval_results # {}

\* ---------------------------------------------------- claims on the ranker
\* lowercase(strip(text[:200]))
CanonicalKey(text) == Lower(Strip(text.head))

FusionDone == call.fn = "reciprocal_rank_fusion"
HybridDone == call.fn = "hybrid_search"

\* C11: when exactly one of the two searches fails, hybrid_search returns the
\* fusion of the other side's results with an empty failed side; when both
\* fail it returns the empty list; it never raises for a failed search.
C11_SubSearchFailureTolerated ==
    HybridDone
    => /\ ~call.raised
       /\ (~call.vectorOk /\ ~call.sparseOk) => call.out = <<>>
       /\ (~call.vectorOk /\ call.sparseOk)
          => \A i \in 1..Len(call.out) :
                /\ call.out[i].vector_score = 0
                /\ \E j \in 1..Len(call.sparse) :
                     call.out[i].text = call.sparse[j].text
       /\ (call.vectorOk /\ ~call.sparseOk)
          => \A i \in 1..Len(call.out) :
                /\ call.out[i].sparse_score = 0
                /\ \E j \in 1..Len(call.vector) :
                     call.out[i].text = call.vector[j].text

\* C12: reciprocal_rank_fusion asked for at least one result returns first
\* the rank-0 item of the vector list when alpha = 1.0 and that list is not
\* empty, and the rank-0 item of the sparse list when alpha = 0.0 and that
\* list is not empty.
C12_AlphaExtremesRankFirst ==
    (FusionDone /\ call.top_k.v >= 1)
    => /\ (call.alpha.v = 10 /\ call.vector # <<>>)
          => /\ call.out # <<>>
             /\ CanonicalKey(call.out[1].text) = CanonicalKey(call.vector[1].text)
       /\ (call.alpha.v = 0 /\ call.sparse # <<>>)
          => /\ call.out # <<>>
             /\ CanonicalKey(call.out[1].text) = CanonicalKey(call.sparse[1].text)

\* C13: hybrid_search and reciprocal_rank_fusion called with an explicit
\* top_k >= 0 return at most top_k results.
C13_AtMostTopK ==
    ((FusionDone \/ HybridDone) /\ ~call.raised /\ call.top_k.some)
    => Len(call.out) <= call.top_k.v

\* the scores the items of a list with the key of text carry
ScoresOf(list, text) ==
    {list[i].score : i \in {j \in 1..Len(list) :
                               CanonicalKey(list[j].text) = CanonicalKey(text)}}

KeysOf(list) == {CanonicalKey(list[i].text) : i \in 1..Len(list)}

FirstSeen(text) ==
    LET inV == {i \in 1..Len(call.vector) :
                  CanonicalKey(call.vector[i].text) = CanonicalKey(text)}
        inS == {i \in 1..Len(call.sparse) :
                  CanonicalKey(call.sparse[i].text) = CanonicalKey(text)}
    IN IF inV # {} THEN CHOOSE i \in inV : \A o \in inV : i <= o
       ELSE Len(call.vector) + (CHOOSE i \in inS : \A o \in inS : i <= o)

\* C15: the results are in order of non-increasing combined score, and
\* results of equal score are in insertion order: items of the vector list
\* in vector order, then sparse-only items in sparse order.
C15_SortedStable ==
    /\ ((FusionDone \/ HybridDone) /\ ~call.raised)
       => \A i, j \in 1..Len(call.out) :
             i < j => call.out[i].score >= call.out[j].score
    /\ FusionDone
       => \A i, j \in 1..Len(call.out) :
             (i < j /\ call.out[i].score = call.out[j].score)
             => FirstSeen(call.out[i].text) < FirstSeen(call.out[j].text)

\* a fusion has returned a best result followed by two that tie
C15_Witness ==
    /\ FusionDone
    /\ Len(call.out) = 3
    /\ call.out[1].score > call.out[2].score
    /\ call.out[2].score = call.out[3].score

\* --------------------------------------------------- claims on the auto-tuner
\* the samples of each alpha bucket and of each top_k bucket, as positions
\* in rows
AlphaGroups(rows) ==
    [b \in {RoundDiv(rows[i].alpha, 10) * 10 : i \in 1..Len(rows)} |->
       {i \in 1..Len(rows) : RoundDiv(rows[i].alpha, 10) * 10 = b}]

TopKGroups(rows) ==
    [k \in {rows[i].top_k.v : i \in {j \in 1..Len(rows) : rows[j].top_k.some}} |->
       {i \in 1..Len(rows) : rows[i].top_k.some /\ rows[i].top_k.v = k}]

RECURSIVE SumQuality(_, _)
SumQuality(rows, S) ==
    IF S = {} THEN 0
    ELSE LET i == CHOOSE i \in S : TRUE
         IN rows[i].faithfulness + rows[i].relevance + SumQuality(rows, S \ {i})

FirstOf(S) == CHOOSE i \in S : \A o \in S : i <= o

\* key is Some(b) for the bucket b with >= 3 samples whose mean quality is
\* highest, the first-seen such bucket on a tie; Absent when there is none
IsBest(rows, key, groups) ==
    LET big == {b \in DOMAIN groups : Cardinality(groups[b]) >= 3}
    IN IF big = {} THEN key = Absent
       ELSE /\ key.some
            /\ key.v \in big
            /\ \A o \in big \ {key.v} :
                 LET sk == SumQuality(rows, groups[key.v]) * Cardinality(groups[o])
                     so == SumQuality(rows, groups[o]) * Cardinality(groups[key.v])
                 IN \/ sk > so
                    \/ sk = so /\ FirstOf(groups[key.v]) < FirstOf(groups[o])

\* C16: get_optimal_params returns (None, None) for fewer than 10 eligible
\* rows; from 10 rows on it returns, for alpha snapped to 0.1 and
\* independently for top_k, the bucket with >= 3 samples of highest mean
\* (faithfulness + relevance) / 2, first seen on a tie, None when no bucket
\* has 3 samples.
C16_OptimalParams ==
    call.fn = "get_optimal_params"
    => IF Len(call.rows) < MIN_QUERIES_FOR_TUNING
       THEN call.out = [alpha |-> Absent, top_k |-> Absent]
       ELSE /\ IsBest(call.rows, call.out.alpha, AlphaGroups(call.rows))
            /\ IsBest(call.rows, call.out.top_k, TopKGroups(call.rows))

\* ------------------------------------------------ claims on the prompt builder
\* C17: the prompts build_prompt returns satisfy count_tokens(user_prompt) +
\* count_tokens(system_prompt) + count_tokens(query) + 200 <=
\* max_context_tokens, the user prompt counted with its source labels,
\* separators and template text.
C17_PromptWithinContext ==
    call.fn = "build_prompt"
    => Len(call.out.user_prompt) + Len(call.out.system_prompt) + Len(call.query)
         + 200
       <= (IF call.given.some THEN call.given.v ELSE max_context_tokens)

\* ------------------------------------------------------ claims on the router
\* C18: generate and generate_stream fail, with the request sent to no
\* provider, for a model name starting with 'claude' when no Anthropic key is
\* configured and for one starting with 'gpt', 'o1' or 'o3' when no OpenAI
\* key is configured; only names with none of these prefixes go to the local
\* provider.
C18_MissingKeyIsAnError ==
    call.fn \in {"generate", "generate_stream"}
    => LET name == IF call.model.some /\ call.model.v # "" THEN call.model.v
                   ELSE default_model
           claude == StartsWith(name, "claude")
           openai == StartsWithAny(name, {"gpt", "o1", "o3"})
       IN /\ (claude /\ ~call.anthropic_api_key)
             => (call.raised /\ call.sent_to = "none")
          /\ (openai /\ ~call.openai_api_key)
             => (call.raised /\ call.sent_to = "none")
          /\ call.sent_to = "ollama" => (~claude /\ ~openai)

\* ------------------------------------------------- claims on run_batch_eval
IsError(r) == "error" \in DOMAIN r

ErrorEntries(results) == {i \in 1..Len(results) : IsError(results[i])}
ScoredEntries(results) == {i \in 1..Len(results) : ~IsError(results[i])}

RECURSIVE SumField(_, _, _)
SumField(results, S, field) ==
    IF S = {} THEN 0
    ELSE LET i == CHOOSE i \in S : TRUE
         IN results[i][field] + SumField(results, S \ {i}, field)

\* the mean of a field over the scored entries, None when there is none
MeanOfScored(results, field) ==
    IF ScoredEntries(results) = {} THEN None
    ELSE [num |-> SumField(results, ScoredEntries(results), field),
          den |-> Cardinality(ScoredEntries(results))]

\* the run of the batch is in eval_runs with this status
RunHasStatus(status) ==
    \E r \in eval_runs : r.id = batch.run_id /\ r.status = status

\* a batch that returned went through all questions and left its run
\* completed, with one {question, error} entry per question that raised, in
\* order, and averages over the scored entries only
BatchReturnedRight ==
    (batch.pc = "done" /\ batch.outcome = "returned")
    => /\ batch.i = Len(batch.questions) + 1
       /\ \E r \in eval_runs :
            /\ r.id = batch.run_id
            /\ r.status = "completed"
            /\ r.results = batch.results
            /\ Cardinality(ErrorEntries(r.results)) = Len(batch.raised_at)
            /\ \A k \in 1..Len(batch.raised_at) :
                 \E i \in ErrorEntries(r.results) :
                    /\ Cardinality({j \in ErrorEntries(r.results) : j <= i}) = k
                    /\ DOMAIN r.results[i] = {"question", "error"}
                    /\ r.results[i].question
                         = batch.questions[batch.raised_at[k]].question
            /\ r.avg_faithfulness = MeanOfScored(r.results, "faithfulness")
            /\ r.avg_relevance = MeanOfScored(r.results, "relevance")
            /\ r.avg_hallucination_rate
                 = MeanOfScored(r.results, "hallucination_rate")
            /\ r.avg_context_precision
                 = MeanOfScored(r.results, "context_precision")

\* only the batch's own store statements and a missing test set end it with
\* an error
BatchRaisesOnlyOwnErrors ==
    (batch.pc = "done" /\ batch.outcome = "raised")
    => batch.error \in {"ValueError", "store"}

\* a started batch inserts its run as 'running'; a question whose pipeline
\* call raised takes the loop to the next question
BatchSteps ==
    /\ (batch.pc = "idle" /\ batch'.pc = "loop")
       => /\ batch'.run_id \notin {r.id : r \in eval_runs}
          /\ \E r \in eval_runs' : r.id = batch'.run_id /\ r.status = "running"
    /\ (batch.pc = "await" /\ batch'.pc # "await"
        /\ task[1].outcome = "raised")
       => /\ batch'.pc = "loop"
          /\ batch'.i = batch.i + 1
          /\ eval_runs' = eval_runs

MetricFns == {"_parse_score", "_heuristic_faithfulness", "_heuristic_relevance",
              "_heuristic_hallucination", "compute_context_precision"}

\* C20: every score lies in [0,1]: _parse_score of any response (exactly 0.5
\* when the response holds no digit), each heuristic fallback, and
\* compute_context_precision with the overlap rule and with any explicit list
\* of relevant indices.
C20_ScoresInUnitInterval ==
    call.fn \in MetricFns
    => /\ 0 <= call.out.num
       /\ call.out.num <= call.out.den
       /\ (call.fn = "_parse_score"
           /\ \A i \in 1..Len(call.text) : call.text[i] \notin {"0", "1", "7"})
          => 2 * call.out.num = call.out.den

\* ---------------------------------------------------- evaluate_query claims
\* the scorers of a recorded evaluate_query call whose judge was called
JudgeCalled(c, s) ==
    CASE s = "faithfulness" -> c.answer # <<>> /\ c.chunks # <<>>
      [] s = "relevance" -> c.answer # <<>>
      [] s = "hallucination_rate" -> ~c.lightweight /\ c.answer # <<>>
      [] OTHER -> c.ground_truth # <<>>

\* the deterministic fallback of a scorer
FallbackOf(c, s) ==
    CASE s = "faithfulness" -> _heuristic_faithfulness(c.answer, c.chunks)
      [] s = "relevance" -> _heuristic_relevance(c.query, c.answer)
      [] s = "hallucination_rate" -> _heuristic_hallucination(c.answer, c.chunks)
      [] OTHER -> Frac(5, 10)

JudgeFailure(c) == \E s \in Scorers : JudgeCalled(c, s) /\ ~c.judges[s].ok

\* C21: when a judge call fails, evaluate_query does not raise and the
\* scorer's value is its fallback; a run_query_pipeline whose evaluation had
\* a judge failure goes on to persistence and, unless the database fails
\* there, returns its result with the scores of that evaluation.
C21_JudgeFailureTolerated ==
    /\ call.fn = "evaluate_query" =>
         /\ ~call.out.raised
         /\ \A s \in Scorers :
              (JudgeCalled(call, s) /\ ~call.judges[s].ok)
              => call.out.scores[s] = FallbackOf(call, s)
    /\ \A p \in Procs :
         (/\ task[p].pc = "done"
          /\ call.fn = "evaluate_query"
          /\ call.query_id = task[p].query_id
          /\ JudgeFailure(call))
         => \/ task[p].outcome = "raised" /\ task[p].error = "persistence"
            \/ /\ task[p].outcome = "returned"
               /\ task[p].result.eval_scores = call.out.scores

\* ------------------------------------------------------ BM25 index claims
\* C22: BM25Index.search returns at most top_k results, each with a score
\* > 0, in non-increasing score order, and [] on an index without documents.
C22_Bm25SearchContract ==
    call.fn = "BM25Index.search"
    => /\ call.top_k.some => Len(call.out) <= call.top_k.v
       /\ \A i \in 1..Len(call.out) : call.out[i].score > 0
       /\ \A i \in 1..(Len(call.out) - 1) :
            call.out[i].score >= call.out[i + 1].score
       /\ call.documents = <<>> => call.out = <<>>

\* -------------------------------------------------------- MCP server claims
\* a tools/call that cannot be carried out
ToolCallFails(e) ==
    /\ e.line.kind = "object" /\ e.line.method = "tools/call"
    /\ \/ e.line.name \notin McpTools
       \/ e.line.name \in NeedsArgument /\ ~e.line.has_argument
       \/ ~e.toolOk

\* a line that asks for an answer: everything but blank lines and
\* notifications
AsksForAnswer(line) ==
    line.kind # "blank"
    /\ ~(line.kind = "object" /\ line.method = "notifications/initialized")

\* C23: every request line gets a well-formed JSON-RPC response and the
\* loop goes on: -32601 for an unknown method, -32700 for an unparsable
\* line, an error object for a tools/call that cannot be carried out.
C23_McpAnswersEveryRequest ==
    /\ mcp.pc # "crashed"
    /\ \A i \in 1..Len(mcp.log) :
         LET e == mcp.log[i] IN
         /\ AsksForAnswer(e.line)
            => e.reply.jsonrpc = "2.0" /\ e.reply.kind \in {"result", "error"}
         /\ e.line.kind = "garbage"
            => e.reply.kind = "error" /\ e.reply.code = -32700
         /\ (e.line.kind = "object" /\ e.line.method \notin HandledMethods)
            => e.reply.kind = "error" /\ e.reply.code = -32601
         /\ ToolCallFails(e) => e.reply.kind = "error"

\* ------------------------------------------------ run_batch_eval entry claims
\* C28: a completed run_batch_eval holds one entry per question, in question
\* order, each a scored result or an error entry, and evaluated plus the
\* number of error entries is total_questions, also for answers served from
\* the semantic cache.
C28_OneEntryPerQuestion ==
    (batch.pc = "done" /\ batch.outcome = "returned")
    => /\ Len(batch.results) = Len(batch.questions)
       /\ \A i \in 1..Len(batch.results) :
            i <= Len(batch.questions)
            => batch.results[i].question = batch.questions[i].question
       /\ batch.count + Cardinality(ErrorEntries(batch.results))
            = Len(batch.questions)

\* ----------------------------------------------- claims on repeated keys
\* the reciprocal rank of a key's best (first) occurrence in a list, 0 when
\* the key is not in it
BestRrf(list, key, n) ==
    LET at == {j \in 1..Len(list) : CanonicalKey(list[j].text) = key}
    IN IF at = {} THEN 0 ELSE RrfScore(FirstOf(at) - 1, n)

\* C29: a key that occurs at several ranks of one input list contributes to
\* the merged score with its best rank in that list.
C29_BestRankContribution ==
    FusionDone
    => LET n == Max(Len(call.vector), Len(call.sparse))
       IN \A i \in 1..Len(call.out) :
            LET key == CanonicalKey(call.out[i].text)
            IN call.out[i].score =
                 Combined(call.alpha.v, BestRrf(call.vector, key, n),
                          BestRrf(call.sparse, key, n))

\* ------------------------------------------- claims on shadowed cache entries
\* an entry that is stored for the collection, within the TTL at time t and
\* at least cache_threshold similar to the query
Qualifies(point, query, collection, t) ==
    /\ point # NoPoint
    /\ point.collection = collection
    /\ t - point.created_at <= cache_ttl_seconds
    /\ Cosine(query, point.query) >= cache_threshold

\* the step in which p's cache_lookup gets the store's answer
LookupFetches(p) == task[p].pc = "lookup" /\ task'[p].pc = "cache_stat"

Partway(w, c) ==
    /\ worker[w].collection = c
    /\ worker[w].pc \in {"build", "save", "pop", "rank"}

\* the document list of the persisted index (none when there is no file)
FileDocuments(c) ==
    IF bm25_files[c].exists THEN bm25_files[c].documents ELSE <<>>

IndexMutex ==
    \A c \in Collections : \A w1, w2 \in Workers :
        Partway(w1, c) /\ Partway(w2, c) => w1 = w2

\* C24: appends, deletes and searches of one collection's sparse index
\* exclude each other (at most one task is partway through one), and
\* whenever no append or delete is partway the in-process index and the
\* persisted file hold the same document list.
C24_IndexExclusiveAndPersisted ==
    /\ IndexMutex
    /\ \A c \in Collections :
         (bm25_cache[c].cached /\ \A w \in Workers : ~Partway(w, c))
             => bm25_cache[c].documents = FileDocuments(c)

JobFiles(j) == {d \in uploads : d[1] = j}

\* C25: when an ingestion job has a terminal status none of its staged
\* files is left under upload_dir, and a job whose background task has
\* ended has a terminal status.
C25_StagedFilesGoneAndJobTerminal ==
    \A j \in Jobs :
        /\ jobs[j].status \in {"completed", "failed"} => JobFiles(j) = {}
        /\ worker[<<"ingest", j>>].pc = "done"
               => jobs[j].status \in {"completed", "failed"}

InSeq(x, s) == \E k \in 1..Len(s) : s[k] = x

\* file i of job j has just been processed: the finally clause ran for it
Processed(j, i) ==
    /\ worker[<<"ingest", j>>].pc = "unlink"
    /\ worker[<<"ingest", j>>].i = i
    /\ worker'[<<"ingest", j>>].pc = "load"

\* C30: once a file of an ingestion job has been processed, the vector
\* store, the sparse index and the documents table agree about it: all
\* three hold it or none does.
C30_StoresAgreePerFile ==
    [][\A j \in Jobs : \A i \in 1..(MaxFiles + 1) :
          Processed(j, i) =>
              LET c == worker[<<"ingest", j>>].collection
                  inVectors == DocId(j, i) \in vectors'[c].points
                  inSparse == InSeq(DocId(j, i), bm25_cache'[c].documents)
                  inTable == \E d \in documents' : d.id = DocId(j, i)
              IN  (inVectors /\ inSparse /\ inTable)
                  \/ (~inVectors /\ ~inSparse /\ ~inTable)]_vars

\* C27: once remove_collection(name) has returned, a run_query_pipeline
\* call on that collection does not return an answer that was cached
\* before the deletion.
C27_NoCachedAnswerAfterRemoval ==
    (Removed /\ task[1].pc = "done" /\ task[1].outcome = "returned"
             /\ task[1].collection = worker[RemoveWorker].collection)
        => ~task[1].result.cache_hit
====
